---- MODULE Spec2Model ----
(***************************************************************************)
(* The winget.tr crawl engine: the three generations of the generator that *)
(* the repository holds,                                                   *)
(*   Detailed  src/scripts/generate-api.js      (WingetDetailedGenerator)  *)
(*   Api       src/unnamed/part_000             (WingetApiGenerator)       *)
(*   Workflow  src/.github/workflows/update-api.yml, lines 64-393          *)
(* as one state machine.  A state is the position of the single async flow *)
(* of control (pc), the fetchWithRetry calls that are running (calls), the *)
(* generator's fields and the locals that live across an await, and the    *)
(* files under dist/.  An action is the code that runs between two awaits. *)
(* The remote answers every request with a success, the quota signal or    *)
(* another failure; what a successful answer holds is the remote's choice. *)
(* Time is kept relative: elapsed milliseconds are counted down from the   *)
(* quota reset the remote announced last.                                  *)
(***************************************************************************)
EXTENDS Integers, Sequences, FiniteSets, TLC

(***************************************************************************)
(* Program constants                                                       *)
(***************************************************************************)
concurrentLimit == 2
requestDelay == 1000
Retries == 3
LowWaterMark == 10
SafetyMargin == 1000
CoolDown == 30000
BackoffBase == 1000
PackageDelay == 500
BatchDelay == 2000
CheckpointEvery == 5
ForbiddenWait == 2000
RetryStep == 1000

(***************************************************************************)
(* Bounds of the model                                                     *)
(***************************************************************************)
\* directory-type entries of the root listing of a small remote tree
MaxPublishers == 3
\* directory-type entries of the root listing of a run under fairness
FairPublishers == 2
\* directory-type entries of the root listing of a long remote tree
MaxLongRoot == 13
\* package directories and injected failures of a run over a long tree
LongPackages == 2
LongFaults == 1
\* calls of a rejected Promise.all that may still be running
MaxOrphans == 2
\* directory-type packages the publishers of one remote tree hold in all
MaxPackages == 2
\* failures (transport or storage) the environment injects in one run
MaxFaults == 3
\* failures injected in a run that fans out over the remote's whole tree
FewFaults == 1
\* milliseconds from a response to the quota reset it announces
MaxResetIn == 2000

Detailed == "Detailed"
Api == "Api"
Workflow == "Workflow"
Variants == {Detailed, Api, Workflow}

VARIABLES
  variant,      \* which generation of the generator runs
  rootMin,      \* directory entries the root listing holds at least
  rootMax,      \* directory entries the root listing holds at most
  dotted,       \* whether directory names of the remote tree hold dots
  args,         \* the arguments of a function that is applied on its own
  returned,     \* what that function returned
  pkgsLeft,     \* package directories the remote tree may still reveal
  faults,       \* failures the environment may still inject
  pc,           \* where the flow of control is suspended
  calls,        \* the running fetchWithRetry calls, by slot (0: awaited in line)
  untilReset,   \* ms until the quota reset announced by the last low-quota response
  packages,     \* this.packages
  stats,        \* this.stats (Api)
  batches,      \* generateApiFiles: batches
  index,        \* generateApiFiles: index of the current batch (0-based)
  pubPos,       \* processBatch: position of the current publisher in its batch
  batchResults, \* processBatch: results
  pkgs,         \* processPublisher: the directory-type packages of the listing
  pkgPos,       \* processPublisher: position of the current package
  results,      \* processPublisher: results
  versions,     \* processPackage: versionPaths / versions
  disk,         \* the files under dist/
  status,       \* how the run ended: "running", "ok", "failed"
  offered,      \* history: ids of the directory-type packages of every listed publisher
  started,      \* history: ids processPackage was called with, in call order
  healthy,      \* history: ids whose every fetch, parse and build succeeded
  batchLog,     \* history: the records each completed batch returned
  snapshots,    \* history: each record list written, with the batches completed by then
  rootResult,   \* history: how the root listing call ended ("none" before it has)
  failed,       \* history: ids whose processing met a failed fetch, parse or build
  versionless   \* history: ids whose version listing held no directory

vars == <<variant, rootMin, rootMax, dotted, args, returned, pkgsLeft, faults, pc, calls, untilReset, packages, stats,
          batches, index, pubPos, batchResults, pkgs, pkgPos, results, versions,
          disk, status, offered, started, healthy, batchLog, snapshots,
          rootResult, failed, versionless>>

flowVars == <<batches, index, pubPos, batchResults, pkgs, pkgPos, results, versions>>
historyVars == <<offered, started, healthy, batchLog, snapshots, rootResult,
                 failed, versionless>>

(***************************************************************************)
(* Helpers                                                                 *)
(***************************************************************************)
\* a version component that is no number
NaN == -1

Min(a, b) == IF a < b THEN a ELSE b
Max(a, b) == IF a > b THEN a ELSE b

Range(s) == {s[i] : i \in DOMAIN s}

IsPrefix(s, t) == /\ Len(s) <= Len(t)
                  /\ \A i \in 1..Len(s) : s[i] = t[i]

RECURSIVE Pow2(_)
\* Math.pow(2, i)
Pow2(n) == IF n = 0 THEN 1 ELSE 2 * Pow2(n - 1)

RECURSIVE Flatten(_)
\* the concatenation of a sequence of sequences
Flatten(ss) == IF ss = <<>> THEN <<>> ELSE Head(ss) \o Flatten(Tail(ss))

RECURSIVE SumVersions(_)
\* packages.reduce((acc, pkg) => acc + pkg.versions.length, 0)
SumVersions(ps) ==
  IF ps = <<>> THEN 0 ELSE Len(Head(ps).versions) + SumVersions(Tail(ps))

\* a filter that lets every entry pass
KeepAll(entries) == entries

\* entries.filter(e => e.type === 'dir')
FilterDirs(entries) == SelectSeq(entries, LAMBDA e : e.type = "dir")

\* a listing without a directory
NoDirectory(entries) == \A n \in 1..Len(entries) : entries[n].type # "dir"

(***************************************************************************)
(* Names                                                                   *)
(***************************************************************************)
\* a name is the number whose decimal digits are its characters: 1..7 are
\* letters, and the three below; the number 0 is the empty string
Dot == 0
Underscore == 8
Blank == 9

RECURSIVE Chars(_)
Chars(name) == IF name = 0 THEN <<>> ELSE Chars(name \div 10) \o << name % 10 >>

RECURSIVE Unchars(_)
Unchars(cs) ==
  IF cs = <<>> THEN 0
  ELSE 10 * Unchars(SubSeq(cs, 1, Len(cs) - 1)) + cs[Len(cs)]

\* `${publisher.name}.${pkg.name}`
JoinId(pub, pkg) == Unchars(Chars(pub) \o << Dot >> \o Chars(pkg))

(***************************************************************************)
(* The remote: what a successful response may hold                         *)
(***************************************************************************)
\* a directory listing: d directory entries followed by f file entries,
\* each named by its position
Listing(d, f) ==
  [n \in 1..(d + f) |-> [name |-> n, type |-> IF n <= d THEN "dir" ELSE "file"]]

RootListings(least, most) ==
  {Listing(d, f) : d \in least..most, f \in 0..1}

PackageListings(left) ==
  {Listing(d, f) : d \in 0..left, f \in 0..1}

\* version names are dotted strings, held as the sequence of their components
VersionListings ==
  { <<>>,
    << [name |-> <<0>>, type |-> "file"] >>,
    << [name |-> <<1, 2>>, type |-> "dir"],
       [name |-> <<1, 10>>, type |-> "dir"],
       [name |-> <<0>>, type |-> "file"] >> }

\* a file of a version directory: the part of its name before the extension
\* ("" for <id>.yaml, "installer", "locale.en-US", ...) and the extension
FileListings ==
  { <<>>,
    << [stem |-> "", ext |-> "md"] >>,
    << [stem |-> "", ext |-> "md"], [stem |-> "", ext |-> "yaml"] >>,
    << [stem |-> "installer", ext |-> "yaml"],
       [stem |-> "locale.en-US", ext |-> "yaml"],
       [stem |-> "", ext |-> "yml"] >> }

\* names are numbers, 0 the empty or missing string; a parsed manifest holds
\* the fields the record is built from, Tags as a string or as a YAML list
NoTags == [kind |-> "absent", text |-> <<>>]

\* a manifest without the fields of running text
NoProse ==
  [Description |-> 0, ShortDescription |-> 0, Homepage |-> 0, License |-> 0,
   Author |-> 0]

Contents ==
  { d @@ NoProse : d \in
    { [parse |-> "throws", PackageName |-> 0, Publisher |-> 0, Tags |-> NoTags],
      [parse |-> "null", PackageName |-> 0, Publisher |-> 0, Tags |-> NoTags],
      [parse |-> "ok", PackageName |-> 0, Publisher |-> 0, Tags |-> NoTags],
      [parse |-> "ok", PackageName |-> 7, Publisher |-> 9,
       Tags |-> [kind |-> "string", text |-> <<"a", ",", " ", ",", "b", " ">>]],
      [parse |-> "ok", PackageName |-> 7, Publisher |-> 9,
       Tags |-> [kind |-> "list", text |-> <<>>]],
      [parse |-> "ok", PackageName |-> 0, Publisher |-> 8, Tags |-> NoTags] } }

\* the x-ratelimit-remaining / x-ratelimit-reset headers of a response:
\* remaining -1 and hasReset FALSE stand for a missing header; resetIn is
\* the announced reset time less the time of the response, in ms
QuotaReports ==
  { [remaining |-> -1, resetIn |-> 0, hasReset |-> FALSE],
    [remaining |-> 50, resetIn |-> MaxResetIn, hasReset |-> TRUE],
    [remaining |-> 5, resetIn |-> MaxResetIn, hasReset |-> TRUE],
    [remaining |-> 5, resetIn |-> 0, hasReset |-> TRUE],
    [remaining |-> 5, resetIn |-> 0 - MaxResetIn, hasReset |-> TRUE] }

\* the installer manifest: no field of it reaches the parts of a record
\* that are modelled, only whether it parses
InstallerContents ==
  {c \in Contents : c.PackageName = 0 /\ c.Publisher = 0 /\ c.parse # "null"}

Payloads(ctx, least, most, left) ==
  CASE ctx = "root" -> RootListings(least, most)
    [] ctx = "publisher" -> PackageListings(left)
    [] ctx = "versions" -> VersionListings
    [] ctx = "files" -> FileListings
    [] ctx = "installer" -> InstallerContents
    [] OTHER -> Contents

\* a tree of two publishers, "a" and "a.b", with one package each, "b.c"
\* and "c"
DottedRoot ==
  << [name |-> 1, type |-> "dir"], [name |-> JoinId(1, 2), type |-> "dir"] >>
DottedPackages(pub) ==
  << [name |-> IF pub = 1 THEN JoinId(2, 3) ELSE 3, type |-> "dir"] >>

\* the publisher and the package the flow is at
CurPub == batches[index + 1][pubPos]
CurPkg == pkgs[pkgPos]

\* what the remote tree of a crawl over a fixed tree holds at the path the
\* call is for
TreeAnswer(ctx) ==
  CASE ctx = "root" -> args.tree.root
    [] ctx = "publisher" -> args.tree.pkgs[CurPub]
    [] ctx = "versions" -> args.tree.leaf[<< CurPub, CurPkg >>].versions
    [] ctx = "files" -> args.tree.leaf[<< CurPub, CurPkg >>].files
    [] OTHER -> args.tree.leaf[<< CurPub, CurPkg >>].content

\* what a successful response to a call may hold
Served(ctx) ==
  IF args.fn = "crawl" THEN {TreeAnswer(ctx)}
  ELSE IF dotted /\ ctx = "root" THEN {DottedRoot}
  ELSE IF dotted /\ ctx = "publisher" THEN {DottedPackages(CurPub)}
  ELSE Payloads(ctx, rootMin, rootMax, pkgsLeft)

\* a response that announces a low quota and a reset time in the future
\* starts the countdown to that reset
Announce(report, until) ==
  IF report.remaining >= 0 /\ report.remaining < LowWaterMark
     /\ report.hasReset /\ report.resetIn > 0
  THEN Max(until, report.resetIn) ELSE until

\* ms elapse
Elapse(until, ms) == Max(0, until - ms)


(***************************************************************************)
(* fetchWithRetry calls                                                    *)
(***************************************************************************)
\* st: "idle", "sleep" (the delay before an attempt), "inflight" (a request
\* is out), "ratewait", "cooldown", "backoff", "done"; i: the loop counter;
\* reqs: requests issued; log: the outcome of each answered attempt; res: how
\* the call ended ("data", "undefined": the loop ran out, "threw"); gap: the
\* sleep that ended as the last request was issued
\* slot 0 is the call the flow awaits in line; slots 1..3 are the calls of
\* the Promise.all of Workflow's processPackage, by manifest kind; the other
\* slots hold calls that outlive a rejected Promise.all
ManifestKinds == << "installer", "locale", "default" >>
GatherSlots == 1..Len(ManifestKinds)
OrphanSlots == (Len(ManifestKinds) + 1)..(Len(ManifestKinds) + MaxOrphans)
Slots == {0} \cup GatherSlots \cup OrphanSlots

IdleCall ==
  [st |-> "idle", i |-> 0, ctx |-> "none", reqs |-> 0, log |-> <<>>,
   res |-> "none", data |-> <<>>, gap |-> 0, wait |-> 0]

\* a request goes out `slept` ms after the response before it, or after the
\* call (0: with no sleep between)
Issue(c, slept) ==
  [c EXCEPT !.st = "inflight", !.reqs = @ + 1, !.gap = slept]

Returned(c, data) == [c EXCEPT !.st = "done", !.res = "data", !.data = data]
Threw(c) == [c EXCEPT !.st = "done", !.res = "threw"]

\* parseInt(response.headers['x-ratelimit-remaining'] || '0')
Remaining(report) == IF report.remaining < 0 THEN 0 ELSE report.remaining

\* resetTime - Date.now() + 1000; a missing reset header counts as '0', the
\* epoch, a time in the past beyond any margin
WaitTime(report) ==
  IF report.hasReset THEN report.resetIn + SafetyMargin ELSE 0 - SafetyMargin

\* Detailed, lines 30-40: the response of a successful attempt
DetailedOnResponse(c, report, data) ==
  IF Remaining(report) < LowWaterMark /\ WaitTime(report) > 0
  THEN [c EXCEPT !.st = "ratewait", !.wait = WaitTime(report), !.data = data,
                 !.log = Append(@, "ok")]
  ELSE Returned([c EXCEPT !.log = Append(@, "ok")], data)

\* a ceiling that is one attempt late
GivesUpLate(i) == i = Retries

\* Detailed, line 47: the last attempt rethrows
DetailedGivesUp(i) == i = Retries - 1

\* Detailed, lines 47-48: a failure other than 429
DetailedOnError(c) ==
  IF DetailedGivesUp(c.i)
  THEN Threw([c EXCEPT !.log = Append(@, "error")])
  ELSE [c EXCEPT !.st = "backoff", !.log = Append(@, "error")]

\* a backoff that stays at its base
FlatBackoffMs(i) == BackoffBase

\* Detailed, line 48: Math.pow(2, i) * 1000
DetailedBackoffMs(i) == Pow2(i) * BackoffBase

\* a loop that forgets to count
ContinueUncounted(c, slept) == [c EXCEPT !.st = "sleep", !.gap = slept]

\* Detailed, line 25: i++ and the loop test, `slept` ms after the response;
\* the body starts with the sleep of line 27, and a loop that runs out makes
\* the function return undefined
DetailedContinue(c, slept) ==
  IF c.i + 1 < Retries
  THEN [c EXCEPT !.i = @ + 1, !.st = "sleep", !.gap = slept]
  ELSE [c EXCEPT !.i = @ + 1, !.st = "done", !.res = "undefined"]

\* Detailed, lines 24-27: a call of fetchWithRetry suspends in its first sleep
DetailedCall(ctx) == [IdleCall EXCEPT !.st = "sleep", !.ctx = ctx]

\* Detailed, line 79: getManifestContent sends its request as it is called
DirectRequest == Issue([IdleCall EXCEPT !.ctx = "content"], 0)

(***************************************************************************)
(* Building a record                                                       *)
(***************************************************************************)
RECURSIVE SplitComma(_)
\* text.split(','): the pieces between the commas, at least one
SplitComma(text) ==
  IF \A n \in 1..Len(text) : text[n] # ","
  THEN << text >>
  ELSE LET at == CHOOSE n \in 1..Len(text) :
                   text[n] = "," /\ \A m \in 1..(n - 1) : text[m] # ","
       IN << SubSeq(text, 1, at - 1) >> \o SplitComma(SubSeq(text, at + 1, Len(text)))

RECURSIVE Trim(_)
\* t.trim()
Trim(t) ==
  IF t = <<>> THEN t
  ELSE IF Head(t) = " " THEN Trim(Tail(t))
  ELSE IF t[Len(t)] = " " THEN Trim(SubSeq(t, 1, Len(t) - 1))
  ELSE t

MapTrim(pieces) == [n \in 1..Len(pieces) |-> Trim(pieces[n])]

\* a || b on names: 0 (the empty or missing string) is falsy
OrElse(a, b) == IF a # 0 THEN a ELSE b

\* Detailed, line 119: manifest.Tags ? manifest.Tags.split(',').map(t => t.trim()) : []
DetailedTags(tags) ==
  IF tags.kind = "string" /\ tags.text # <<>> THEN MapTrim(SplitComma(tags.text)) ELSE <<>>

\* a record that takes its latest version from the end of the list
RecordOfLast(pub, pkg, vs, manifest) ==
  [id |-> JoinId(pub, pkg),
   versions |-> [n \in 1..Len(vs) |-> vs[n].name],
   latest |-> [name |-> OrElse(manifest.PackageName, pkg),
               publisher |-> OrElse(manifest.Publisher, pub),
               version |-> vs[Len(vs)].name,
               tags |-> DetailedTags(manifest.Tags)]]

\* Detailed, lines 111-132: the record of a package (a YAML list has no split:
\* the caller checks Tags.kind first)
DetailedRecord(pub, pkg, vs, manifest) ==
  [id |-> JoinId(pub, pkg),
   versions |-> [n \in 1..Len(vs) |-> vs[n].name],
   latest |-> [name |-> OrElse(manifest.PackageName, pkg),
               publisher |-> OrElse(manifest.Publisher, pub),
               version |-> vs[1].name,
               tags |-> DetailedTags(manifest.Tags)]]

\* Detailed, line 70: files.filter(f => f.name.endsWith('.yaml') || f.name.endsWith('.yml'))
IsYaml(f) == f.ext \in {"yaml", "yml"}
FilterYaml(files) == SelectSeq(files, IsYaml)

(***************************************************************************)
(* The files under dist/                                                   *)
(***************************************************************************)
EmptyMap == [x \in {} |-> <<>>]
NoStats == [totalPackages |-> 0, totalPublishers |-> 0, totalVersions |-> 0]
EmptyDisk ==
  [hasList |-> FALSE, list |-> <<>>, shards |-> EmptyMap, pkgFiles |-> EmptyMap,
   hasStats |-> FALSE, stats |-> NoStats, hasIndex |-> FALSE]

RECURSIVE PublisherOrder(_, _)
\* the keys of byPublisher, in the order the loop first met them
PublisherOrder(ps, seen) ==
  IF ps = <<>> THEN <<>>
  ELSE IF Head(ps).latest.publisher \in seen THEN PublisherOrder(Tail(ps), seen)
  ELSE << Head(ps).latest.publisher >>
       \o PublisherOrder(Tail(ps), seen \cup {Head(ps).latest.publisher})

\* byPublisher[publisher]
ByPublisher(ps, publisher) ==
  SelectSeq(ps, LAMBDA p : p.latest.publisher = publisher)

\* new Set(this.packages.map(p => p.latest.publisher)).size
DistinctPublishers(ps) == Len(PublisherOrder(ps, {}))

\* Detailed, lines 244-250: the statistics of generateStats
StatsOf(ps) ==
  [totalPackages |-> Len(ps),
   totalPublishers |-> DistinctPublishers(ps),
   totalVersions |-> SumVersions(ps)]

ListWrite(ps) == << [kind |-> "list", content |-> ps] >>
ShardWrites(ps) ==
  LET order == PublisherOrder(ps, {})
  IN [n \in 1..Len(order) |->
        [kind |-> "shard", key |-> order[n], content |-> ByPublisher(ps, order[n])]]
PackageWrites(ps) ==
  [n \in 1..Len(ps) |-> [kind |-> "pkg", key |-> ps[n].id, content |-> ps[n]]]
StatsWrite(ps) == << [kind |-> "stats", content |-> StatsOf(ps)] >>
IndexWrite == << [kind |-> "index"] >>

\* Detailed, lines 214-240: the writes of saveFiles, in order
DetailedWrites(ps) == ListWrite(ps) \o ShardWrites(ps) \o PackageWrites(ps)

\* fs.writeFile: the file now holds the content
WriteFile(d, w) ==
  CASE w.kind = "list" -> [d EXCEPT !.hasList = TRUE, !.list = w.content]
    [] w.kind = "shard" -> [d EXCEPT !.shards = (w.key :> w.content) @@ @]
    [] w.kind = "pkg" -> [d EXCEPT !.pkgFiles = (w.key :> w.content) @@ @]
    [] w.kind = "stats" -> [d EXCEPT !.hasStats = TRUE, !.stats = w.content]
    [] OTHER -> [d EXCEPT !.hasIndex = TRUE]

RECURSIVE WriteFiles(_, _)
WriteFiles(d, ws) ==
  IF ws = <<>> THEN d ELSE WriteFiles(WriteFile(d, Head(ws)), Tail(ws))


(***************************************************************************)
(* Detailed: fetchWithRetry (src/scripts/generate-api.js, lines 24-51)     *)
(***************************************************************************)
\* what no step of a crawl changes
fixedVars == <<variant, rootMin, rootMax, dotted, args, returned>>

DetailedAttempt ==
  /\ variant = Detailed
  /\ calls[0].st = "sleep"
  /\ calls' = [calls EXCEPT ![0] = Issue(@, @.gap + requestDelay)]
  /\ untilReset' = Elapse(untilReset, requestDelay)
  /\ UNCHANGED <<fixedVars, pkgsLeft, faults, pc, packages, stats, flowVars,
                 disk, status, historyVars>>

DetailedOk ==
  /\ variant = Detailed
  /\ calls[0].st = "inflight" /\ calls[0].ctx # "content"
  /\ \E report \in QuotaReports, data \in Served(calls[0].ctx) :
       /\ calls' = [calls EXCEPT ![0] = DetailedOnResponse(@, report, data)]
       /\ untilReset' = Announce(report, untilReset)
       /\ pkgsLeft' = IF calls[0].ctx = "publisher"
                      THEN pkgsLeft - Len(FilterDirs(data)) ELSE pkgsLeft
  /\ UNCHANGED <<fixedVars, faults, pc, packages, stats, flowVars, disk, status,
                 historyVars>>

DetailedQuota ==
  /\ variant = Detailed
  /\ calls[0].st = "inflight" /\ calls[0].ctx # "content"
  /\ faults > 0
  /\ faults' = faults - 1
  /\ calls' = [calls EXCEPT ![0] = [@ EXCEPT !.st = "cooldown", !.log = Append(@, "quota")]]
  /\ UNCHANGED <<fixedVars, pkgsLeft, untilReset, pc, packages, stats, flowVars,
                 disk, status, historyVars>>

DetailedError ==
  /\ variant = Detailed
  /\ calls[0].st = "inflight" /\ calls[0].ctx # "content"
  /\ faults > 0
  /\ faults' = faults - 1
  /\ calls' = [calls EXCEPT ![0] = DetailedOnError(@)]
  /\ UNCHANGED <<fixedVars, pkgsLeft, untilReset, pc, packages, stats, flowVars,
                 disk, status, historyVars>>

DetailedRateWait ==
  /\ variant = Detailed
  /\ calls[0].st = "ratewait"
  /\ calls' = [calls EXCEPT ![0] = Returned(@, @.data)]
  /\ untilReset' = Elapse(untilReset, calls[0].wait)
  /\ UNCHANGED <<fixedVars, pkgsLeft, faults, pc, packages, stats, flowVars,
                 disk, status, historyVars>>

DetailedCoolDown ==
  /\ variant = Detailed
  /\ calls[0].st = "cooldown"
  /\ calls' = [calls EXCEPT ![0] = DetailedContinue(@, CoolDown)]
  /\ untilReset' = Elapse(untilReset, CoolDown)
  /\ UNCHANGED <<fixedVars, pkgsLeft, faults, pc, packages, stats, flowVars,
                 disk, status, historyVars>>

DetailedBackoff ==
  /\ variant = Detailed
  /\ calls[0].st = "backoff"
  /\ calls' = [calls EXCEPT ![0] = DetailedContinue(@, DetailedBackoffMs(@.i))]
  /\ untilReset' = Elapse(untilReset, DetailedBackoffMs(calls[0].i))
  /\ UNCHANGED <<fixedVars, pkgsLeft, faults, pc, packages, stats, flowVars,
                 disk, status, historyVars>>


(***************************************************************************)
(* Detailed: the crawl (src/scripts/generate-api.js, lines 53-207)         *)
(***************************************************************************)
Names(entries) == [n \in 1..Len(entries) |-> entries[n].name]

RECURSIVE Slices(_)
\* lines 183-186: validPublishers.slice(i, i + this.concurrentLimit), i += concurrentLimit
Slices(names) ==
  IF names = <<>> THEN <<>>
  ELSE << SubSeq(names, 1, Min(concurrentLimit, Len(names))) >>
       \o Slices(SubSeq(names, concurrentLimit + 1, Len(names)))

\* a failure test that takes a call that ran out of attempts for a success
OnlyThrew(c) == c.res = "threw"

\* a call that threw, or whose undefined result throws at the first use
\* (publishers.filter, packages.filter, versions.filter, files.filter)
DetailedFailed(c) == c.res # "data"

\* lines 204-206: the catch of generateApiFiles
DetailedCaught ==
  /\ pc' = "done"
  /\ status' = "failed"

\* an assignment where the code pushes
Overwrite(acc, batch) == batch

\* line 190: this.packages.push(...batchPackages)
Accumulate(acc, batch) == acc \o batch

\* a push that forgets what the publisher had yielded before
CollectLast(acc, result) == << result >>

\* results.unshift(result)
CollectFirst(acc, result) == << result >> \o acc

\* line 149: results.push(result)
Collect(acc, result) == Append(acc, result)

\* results.unshift(...publisherPackages)
ExtendInFront(acc, more) == more \o acc

\* line 168: results.push(...publisherPackages)
Extend(acc, more) == acc \o more

Release == calls' = [calls EXCEPT ![0] = IdleCall]

\* lines 166-167 and 141-142: processBatch reaches a publisher, whose
\* processPublisher awaits the package listing
BeginPublisher(i, pos) ==
  /\ index' = i
  /\ pubPos' = pos
  /\ pc' = "publisher"
  /\ calls' = [calls EXCEPT ![0] = DetailedCall("publisher")]

\* lines 147, 89-90 and 56: processPublisher reaches a package, whose
\* processPackage awaits the version listing
BeginPackage(pos) ==
  /\ pkgPos' = pos
  /\ pc' = "versions"
  /\ versions' = <<>>
  /\ started' = Append(started, <<CurPub, pkgs'[pos]>>)
  /\ calls' = [calls EXCEPT ![0] = DetailedCall("versions")]

\* lines 188 and 200: the next batch, or the final saveFiles
ContinueLoop ==
  IF index + 1 < Len(batches)
  THEN /\ BeginPublisher(index + 1, 1)
       /\ batchResults' = <<>>
  ELSE /\ pc' = "finalsave"
       /\ Release
       /\ UNCHANGED <<index, pubPos, batchResults>>

\* lines 174-178
DetailedStart ==
  /\ variant = Detailed
  /\ pc = "start"
  /\ pc' = "root"
  /\ calls' = [calls EXCEPT ![0] = DetailedCall("root")]
  /\ UNCHANGED <<fixedVars, pkgsLeft, faults, untilReset, packages, stats,
                 flowVars, disk, status, historyVars>>

\* lines 178-189, and 204-206 when the listing failed
DetailedRootListed ==
  /\ variant = Detailed
  /\ pc = "root" /\ calls[0].st = "done"
  /\ rootResult' = calls[0].res
  /\ IF DetailedFailed(calls[0])
     THEN /\ DetailedCaught
          /\ Release
          /\ UNCHANGED <<batches, index, pubPos, batchResults>>
     ELSE /\ batches' = Slices(Names(FilterDirs(calls[0].data)))
          /\ status' = status
          /\ IF batches' = <<>>
             THEN /\ pc' = "finalsave"
                  /\ Release
                  /\ UNCHANGED <<index, pubPos, batchResults>>
             ELSE /\ BeginPublisher(0, 1)
                  /\ batchResults' = <<>>
  /\ UNCHANGED <<fixedVars, pkgsLeft, faults, untilReset, packages, stats,
                 pkgs, pkgPos, results, versions, disk, offered, started,
                 healthy, batchLog, snapshots, failed, versionless>>

\* lines 142-147, and 158-160 when the listing failed; then 168-169
DetailedPublisherListed ==
  /\ variant = Detailed
  /\ pc = "publisher" /\ calls[0].st = "done"
  /\ pkgs' = IF DetailedFailed(calls[0]) THEN <<>> ELSE Names(FilterDirs(calls[0].data))
  /\ results' = <<>>
  /\ offered' = offered \o [n \in 1..Len(pkgs') |-> <<CurPub, pkgs'[n]>>]
  /\ IF pkgs' = <<>>
     THEN /\ pc' = "batchsleep"
          /\ Release
          /\ UNCHANGED <<pkgPos, versions, started>>
     ELSE BeginPackage(1)
  /\ UNCHANGED <<fixedVars, pkgsLeft, faults, untilReset, packages, stats,
                 batches, index, pubPos, batchResults, disk, status, healthy,
                 batchLog, snapshots, rootResult, failed, versionless>>

\* lines 56-64 and 90-98
DetailedVersionsListed ==
  /\ variant = Detailed
  /\ pc = "versions" /\ calls[0].st = "done"
  /\ failed' = IF DetailedFailed(calls[0]) THEN failed \cup {<<CurPub, CurPkg>>} ELSE failed
  /\ versions' = IF DetailedFailed(calls[0]) THEN <<>> ELSE FilterDirs(calls[0].data)
  /\ versionless' = IF ~DetailedFailed(calls[0]) /\ NoDirectory(calls[0].data)
                    THEN versionless \cup {<<CurPub, CurPkg>>} ELSE versionless
  /\ IF versions' = <<>>
     THEN /\ pc' = "pkgsleep"
          /\ Release
     ELSE /\ pc' = "files"
          /\ calls' = [calls EXCEPT ![0] = DetailedCall("files")]
  /\ UNCHANGED <<fixedVars, pkgsLeft, faults, untilReset, packages, stats,
                 batches, index, pubPos, batchResults, pkgs, pkgPos, results,
                 disk, status, offered, started, healthy, batchLog, snapshots, rootResult>>

\* lines 69-74 and 98-105; getManifestContent calls this.api.get itself
DetailedFilesListed ==
  /\ variant = Detailed
  /\ pc = "files" /\ calls[0].st = "done"
  /\ failed' = IF DetailedFailed(calls[0]) THEN failed \cup {<<CurPub, CurPkg>>} ELSE failed
  /\ IF ~DetailedFailed(calls[0]) /\ FilterYaml(calls[0].data) # <<>>
     THEN /\ pc' = "content"
          /\ calls' = [calls EXCEPT ![0] = DirectRequest]
     ELSE /\ pc' = "pkgsleep"
          /\ Release
  /\ UNCHANGED <<fixedVars, pkgsLeft, faults, untilReset, packages, stats,
                 flowVars, disk, status, offered, started, healthy, batchLog, snapshots, rootResult>>
  /\ UNCHANGED versionless

\* lines 79-80 and 107-136, then 148-155: the manifest arrived
DetailedContentOk ==
  /\ variant = Detailed
  /\ pc = "content" /\ calls[0].st = "inflight"
  /\ \E report \in QuotaReports, content \in Served("content") :
       /\ untilReset' = Announce(report, untilReset)
       /\ IF content.parse = "ok" /\ content.Tags.kind # "list"
          THEN /\ results' = Collect(results, DetailedRecord(CurPub, CurPkg, versions, content))
               /\ healthy' = healthy \cup {<<CurPub, CurPkg>>}
               /\ UNCHANGED failed
          ELSE /\ failed' = IF content.parse = "null" THEN failed
                            ELSE failed \cup {<<CurPub, CurPkg>>}
               /\ UNCHANGED <<results, healthy>>
  /\ pc' = "pkgsleep"
  /\ Release
  /\ UNCHANGED <<fixedVars, pkgsLeft, faults, packages, stats, batches, index,
                 pubPos, batchResults, pkgs, pkgPos, versions, disk, status,
                 offered, started, batchLog, snapshots, rootResult>>
  /\ UNCHANGED versionless

\* lines 81-84 and 107-109: the request for the manifest failed
DetailedContentFailed ==
  /\ variant = Detailed
  /\ pc = "content" /\ calls[0].st = "inflight"
  /\ failed' = failed \cup {<<CurPub, CurPkg>>}
  /\ faults > 0
  /\ faults' = faults - 1
  /\ pc' = "pkgsleep"
  /\ Release
  /\ UNCHANGED <<fixedVars, pkgsLeft, untilReset, packages, stats, flowVars,
                 disk, status, offered, started, healthy, batchLog, snapshots, rootResult>>
  /\ UNCHANGED versionless

\* line 155 ends; lines 145-147 or 157 and 168-169
DetailedPackageSleep ==
  /\ variant = Detailed
  /\ pc = "pkgsleep"
  /\ untilReset' = Elapse(untilReset, PackageDelay)
  /\ UNCHANGED pkgs
  /\ IF pkgPos < Len(pkgs)
     THEN /\ BeginPackage(pkgPos + 1)
          /\ UNCHANGED batchResults
     ELSE /\ pc' = "batchsleep"
          /\ batchResults' = Extend(batchResults, results)
          /\ UNCHANGED <<calls, pkgPos, versions, started>>
  /\ UNCHANGED <<fixedVars, pkgsLeft, faults, packages, stats, batches, index,
                 pubPos, results, disk, status, offered, healthy, batchLog,
                 snapshots, rootResult, failed, versionless>>

\* line 169 ends; lines 166-167, or 171 and 189-200
DetailedBatchSleep ==
  /\ variant = Detailed
  /\ pc = "batchsleep"
  /\ untilReset' = Elapse(untilReset, BatchDelay)
  /\ IF pubPos < Len(batches[index + 1])
     THEN /\ BeginPublisher(index, pubPos + 1)
          /\ UNCHANGED <<packages, batchResults, batchLog>>
     ELSE /\ packages' = Accumulate(packages, batchResults)
          /\ batchLog' = Append(batchLog, batchResults)
          /\ IF index % CheckpointEvery = 0
             THEN /\ pc' = "checkpoint"
                  /\ UNCHANGED <<calls, index, pubPos, batchResults>>
             ELSE ContinueLoop
  /\ UNCHANGED <<fixedVars, pkgsLeft, faults, stats, batches, pkgs, pkgPos,
                 results, versions, disk, status, offered, started, healthy,
                 snapshots, rootResult, failed, versionless>>


(***************************************************************************)
(* Detailed: saveFiles and generateStats (lines 209-256)                   *)
(***************************************************************************)
\* the first n writes of ws reach the disk; a call that stops short of its
\* last write threw (a mkdir or a writeFile failed); whole: it did not
SaveOutcome(ws, n) ==
  /\ n = Len(ws) \/ faults > 0
  /\ faults' = IF n = Len(ws) THEN faults ELSE faults - 1
  /\ disk' = WriteFiles(disk, SubSeq(ws, 1, n))
  /\ snapshots' = IF n >= 1
                  THEN Append(snapshots, [n |-> Len(batchLog), list |-> ws[1].content,
                                          whole |-> n = Len(ws)])
                  ELSE snapshots

\* line 195, saveFiles after a batch; then 196 and the loop, or the catch
DetailedCheckpoint ==
  /\ variant = Detailed
  /\ pc = "checkpoint"
  /\ \E n \in 0..Len(DetailedWrites(packages)) :
       /\ SaveOutcome(DetailedWrites(packages), n)
       /\ IF n = Len(DetailedWrites(packages))
          THEN /\ ContinueLoop
               /\ status' = status
          ELSE /\ DetailedCaught
               /\ UNCHANGED <<calls, index, pubPos, batchResults>>
  /\ UNCHANGED <<fixedVars, pkgsLeft, untilReset, packages, stats, batches,
                 pkgs, pkgPos, results, versions, offered, started, healthy,
                 batchLog, rootResult, failed, versionless>>

\* line 200, the final saveFiles; then 201-202, or the catch
DetailedFinalSave ==
  /\ variant = Detailed
  /\ pc = "finalsave"
  /\ \E n \in 0..Len(DetailedWrites(packages)) :
       /\ SaveOutcome(DetailedWrites(packages), n)
       /\ IF n = Len(DetailedWrites(packages))
          THEN /\ pc' = "stats"
               /\ status' = status
          ELSE DetailedCaught
  /\ UNCHANGED <<fixedVars, pkgsLeft, untilReset, calls, packages, stats,
                 flowVars, offered, started, healthy, batchLog, rootResult, failed, versionless>>

\* lines 243-256, generateStats; line 207 or the catch
DetailedStats ==
  /\ variant = Detailed
  /\ pc = "stats"
  /\ pc' = "done"
  /\ \E ok \in BOOLEAN :
       /\ ok \/ faults > 0
       /\ faults' = IF ok THEN faults ELSE faults - 1
       /\ disk' = IF ok THEN WriteFiles(disk, StatsWrite(packages)) ELSE disk
       /\ status' = IF ok THEN "ok" ELSE "failed"
  /\ UNCHANGED <<fixedVars, pkgsLeft, untilReset, calls, packages, stats,
                 flowVars, historyVars>>

DetailedNext ==
  \/ DetailedStart
  \/ DetailedAttempt
  \/ DetailedOk
  \/ DetailedQuota
  \/ DetailedError
  \/ DetailedRateWait
  \/ DetailedCoolDown
  \/ DetailedBackoff
  \/ DetailedRootListed
  \/ DetailedPublisherListed
  \/ DetailedVersionsListed
  \/ DetailedFilesListed
  \/ DetailedContentOk
  \/ DetailedContentFailed
  \/ DetailedPackageSleep
  \/ DetailedBatchSleep
  \/ DetailedCheckpoint
  \/ DetailedFinalSave
  \/ DetailedStats

(***************************************************************************)
(* Api: fetchWithRetry (src/unnamed/part_000, lines 35-50)                 *)
(***************************************************************************)
\* a call that threw, or whose undefined result throws at the first use
\* (data.filter, files.find, yaml.parse)
ApiFailed(c) == c.res # "data"

\* lines 35-38: a call of fetchWithRetry sends its first request at once
ApiCall(ctx) == Issue([IdleCall EXCEPT !.ctx = ctx], 0)

\* line 46: the last attempt rethrows
ApiGivesUp(i) == i = Retries - 1

\* lines 46-47: a failure other than 403
ApiOnError(c) ==
  IF ApiGivesUp(c.i)
  THEN Threw([c EXCEPT !.log = Append(@, "error")])
  ELSE [c EXCEPT !.st = "backoff", !.log = Append(@, "error")]

\* line 47: 1000 * (i + 1)
ApiBackoffMs(i) == RetryStep * (i + 1)

\* line 36: i++ and the loop test; the body starts with the request of line
\* 38, sent as the sleep of `slept` ms ends
ApiContinue(c, slept) ==
  IF c.i + 1 < Retries
  THEN Issue([c EXCEPT !.i = @ + 1], slept)
  ELSE [c EXCEPT !.i = @ + 1, !.st = "done", !.res = "undefined"]

ApiOk ==
  /\ variant = Api
  /\ calls[0].st = "inflight"
  /\ \E data \in Served(calls[0].ctx) :
       /\ calls' = [calls EXCEPT ![0] = Returned([@ EXCEPT !.log = Append(@, "ok")], data)]
       /\ pkgsLeft' = IF calls[0].ctx = "publisher"
                      THEN pkgsLeft - Len(FilterDirs(data)) ELSE pkgsLeft
  /\ UNCHANGED <<fixedVars, faults, untilReset, pc, packages, stats, flowVars,
                 disk, status, historyVars>>

ApiQuota ==
  /\ variant = Api
  /\ calls[0].st = "inflight"
  /\ faults > 0
  /\ faults' = faults - 1
  /\ calls' = [calls EXCEPT ![0] = [@ EXCEPT !.st = "cooldown", !.log = Append(@, "quota")]]
  /\ UNCHANGED <<fixedVars, pkgsLeft, untilReset, pc, packages, stats, flowVars,
                 disk, status, historyVars>>

ApiError ==
  /\ variant = Api
  /\ calls[0].st = "inflight"
  /\ faults > 0
  /\ faults' = faults - 1
  /\ calls' = [calls EXCEPT ![0] = ApiOnError(@)]
  /\ UNCHANGED <<fixedVars, pkgsLeft, untilReset, pc, packages, stats, flowVars,
                 disk, status, historyVars>>

ApiCoolDown ==
  /\ variant = Api
  /\ calls[0].st = "cooldown"
  /\ calls' = [calls EXCEPT ![0] = ApiContinue(@, ForbiddenWait)]
  /\ UNCHANGED <<fixedVars, pkgsLeft, faults, untilReset, pc, packages, stats,
                 flowVars, disk, status, historyVars>>

ApiBackoff ==
  /\ variant = Api
  /\ calls[0].st = "backoff"
  /\ calls' = [calls EXCEPT ![0] = ApiContinue(@, ApiBackoffMs(@.i))]
  /\ UNCHANGED <<fixedVars, pkgsLeft, faults, untilReset, pc, packages, stats,
                 flowVars, disk, status, historyVars>>

(***************************************************************************)
(* Api: the crawl (src/unnamed/part_000, lines 52-142 and 255-294)         *)
(***************************************************************************)
\* lines 81-85: name.split('.').map(Number)[i] || 0
ComponentOrZero(v, i) == IF i <= Len(v) /\ v[i] # NaN THEN v[i] ELSE 0

\* lines 80-89: the comparator of the sort, negative when a goes first
ApiCompare(a, b) ==
  LET width == Max(Len(a.name), Len(b.name))
      differ == {i \in 1..width : ComponentOrZero(a.name, i) # ComponentOrZero(b.name, i)}
  IN IF differ = {} THEN 0
     ELSE LET i == CHOOSE j \in differ : \A k \in differ : j <= k
          IN ComponentOrZero(b.name, i) - ComponentOrZero(a.name, i)

RECURSIVE ApiInsert(_, _)
\* x goes behind every element that does not sort after it
ApiInsert(sorted, x) ==
  IF sorted = <<>> THEN << x >>
  ELSE IF ApiCompare(x, Head(sorted)) < 0 THEN << x >> \o sorted
  ELSE << Head(sorted) >> \o ApiInsert(Tail(sorted), x)

RECURSIVE ApiSort(_)
\* line 80: Array.prototype.sort, a stable sort
ApiSort(entries) ==
  IF entries = <<>> THEN <<>>
  ELSE ApiInsert(ApiSort(SubSeq(entries, 1, Len(entries) - 1)), entries[Len(entries)])

\* line 124: (manifest.Tags || '').split(',').map(t => t.trim()).filter(Boolean)
ApiTags(tags) ==
  SelectSeq(MapTrim(SplitComma(IF tags.kind = "string" THEN tags.text ELSE <<>>)),
            LAMBDA t : t # <<>>)

\* lines 117-136: the record of a package
ApiRecord(pub, pkg, vs, manifest) ==
  [id |-> JoinId(pub, pkg),
   versions |-> [n \in 1..Len(vs) |-> vs[n].name],
   latest |-> [name |-> OrElse(manifest.PackageName, pkg),
               publisher |-> OrElse(manifest.Publisher, pub),
               version |-> vs[1].name,
               tags |-> ApiTags(manifest.Tags)]]

\* lines 262-264 and 285-288: the next publisher, or generateApiFiles
ApiAfterPublisher ==
  IF pubPos < Len(batches[1])
  THEN /\ pubPos' = pubPos + 1
       /\ pc' = "publisher"
       /\ calls' = [calls EXCEPT ![0] = ApiCall("publisher")]
  ELSE /\ pc' = "finalsave"
       /\ Release
       /\ UNCHANGED pubPos

\* lines 266-268 and 281: the next package of the publisher, or the loops' end
ApiAfterPackage ==
  IF pkgPos < Len(pkgs)
  THEN /\ pkgPos' = pkgPos + 1
       /\ pc' = "versions"
       /\ started' = Append(started, <<CurPub, pkgs[pkgPos + 1]>>)
       /\ calls' = [calls EXCEPT ![0] = ApiCall("versions")]
       /\ UNCHANGED pubPos
  ELSE /\ ApiAfterPublisher
       /\ UNCHANGED <<pkgPos, started>>

\* lines 255-259 and 52-55
ApiStart ==
  /\ variant = Api
  /\ pc = "start"
  /\ pc' = "root"
  /\ calls' = [calls EXCEPT ![0] = ApiCall("root")]
  /\ UNCHANGED <<fixedVars, pkgsLeft, faults, untilReset, packages, stats,
                 flowVars, disk, status, historyVars>>

\* lines 55-62 and 259-264, and 290-292 when the listing failed
ApiRootListed ==
  /\ variant = Api
  /\ pc = "root" /\ calls[0].st = "done"
  /\ rootResult' = calls[0].res
  /\ IF ApiFailed(calls[0])
     THEN /\ pc' = "done"
          /\ status' = "failed"
          /\ Release
          /\ UNCHANGED <<batches, pubPos, stats>>
     ELSE /\ status' = status
          /\ stats' = [stats EXCEPT !.totalPublishers = Len(FilterDirs(calls[0].data))]
          /\ IF FilterDirs(calls[0].data) = <<>>
             THEN /\ batches' = <<>>
                  /\ pc' = "finalsave"
                  /\ Release
                  /\ UNCHANGED pubPos
             ELSE /\ batches' = << Names(FilterDirs(calls[0].data)) >>
                  /\ pubPos' = 1
                  /\ pc' = "publisher"
                  /\ calls' = [calls EXCEPT ![0] = ApiCall("publisher")]
  /\ UNCHANGED <<fixedVars, pkgsLeft, faults, untilReset, packages, index,
                 batchResults, pkgs, pkgPos, results, versions, disk, offered,
                 started, healthy, batchLog, snapshots, failed, versionless>>

\* lines 68-73 and 264-268
ApiPublisherListed ==
  /\ variant = Api
  /\ pc = "publisher" /\ calls[0].st = "done"
  /\ pkgs' = IF ApiFailed(calls[0]) THEN <<>> ELSE Names(FilterDirs(calls[0].data))
  /\ offered' = offered \o [n \in 1..Len(pkgs') |-> <<CurPub, pkgs'[n]>>]
  /\ IF pkgs' = <<>>
     THEN /\ ApiAfterPublisher
          /\ UNCHANGED <<pkgPos, started>>
     ELSE /\ pkgPos' = 1
          /\ pc' = "versions"
          /\ started' = Append(started, <<CurPub, pkgs'[1]>>)
          /\ calls' = [calls EXCEPT ![0] = ApiCall("versions")]
          /\ UNCHANGED pubPos
  /\ UNCHANGED <<fixedVars, pkgsLeft, faults, untilReset, packages, stats,
                 batches, index, batchResults, results, versions, disk, status,
                 healthy, batchLog, snapshots, rootResult, failed, versionless>>

\* lines 78-93, 269, 112-115 and 97-98: without a version, version.url
\* throws inside fetchManifest, which returns null
ApiVersionsListed ==
  /\ variant = Api
  /\ pc = "versions" /\ calls[0].st = "done"
  /\ failed' = IF ApiFailed(calls[0]) THEN failed \cup {<<CurPub, CurPkg>>} ELSE failed
  /\ versions' = IF ApiFailed(calls[0]) THEN <<>> ELSE ApiSort(FilterDirs(calls[0].data))
  /\ versionless' = IF ~ApiFailed(calls[0]) /\ NoDirectory(calls[0].data)
                    THEN versionless \cup {<<CurPub, CurPkg>>} ELSE versionless
  /\ IF versions' = <<>>
     THEN ApiAfterPackage
     ELSE /\ pc' = "files"
          /\ calls' = [calls EXCEPT ![0] = ApiCall("files")]
          /\ UNCHANGED <<pubPos, pkgPos, started>>
  /\ UNCHANGED <<fixedVars, pkgsLeft, faults, untilReset, packages, stats,
                 batches, index, batchResults, pkgs, results, disk, status,
                 offered, healthy, batchLog, snapshots, rootResult>>

\* lines 98-107
ApiFilesListed ==
  /\ variant = Api
  /\ pc = "files" /\ calls[0].st = "done"
  /\ failed' = IF ApiFailed(calls[0]) THEN failed \cup {<<CurPub, CurPkg>>} ELSE failed
  /\ IF ~ApiFailed(calls[0]) /\ \E n \in 1..Len(calls[0].data) : IsYaml(calls[0].data[n])
     THEN /\ pc' = "content"
          /\ calls' = [calls EXCEPT ![0] = ApiCall("content")]
          /\ UNCHANGED <<pubPos, pkgPos, started>>
     ELSE ApiAfterPackage
  /\ UNCHANGED <<fixedVars, pkgsLeft, faults, untilReset, packages, stats,
                 batches, index, batchResults, pkgs, results, versions, disk,
                 status, offered, healthy, batchLog, snapshots, rootResult>>
  /\ UNCHANGED versionless

\* lines 101-107, 115-141 and 270-281: a Tags list has no split, which
\* throws inside processPackage
ApiContentFetched ==
  /\ variant = Api
  /\ pc = "content" /\ calls[0].st = "done"
  /\ LET content == calls[0].data
         parsed == ~ApiFailed(calls[0]) /\ content.parse = "ok"
     IN IF parsed /\ content.Tags.kind # "list"
        THEN /\ packages' = Append(packages, ApiRecord(CurPub, CurPkg, versions, content))
             /\ stats' = [stats EXCEPT !.totalPackages = @ + 1]
             /\ healthy' = healthy \cup {<<CurPub, CurPkg>>}
             /\ UNCHANGED failed
        ELSE /\ stats' = IF parsed THEN [stats EXCEPT !.processingErrors = @ + 1] ELSE stats
             /\ failed' = IF ~ApiFailed(calls[0]) /\ content.parse = "null" THEN failed
                          ELSE failed \cup {<<CurPub, CurPkg>>}
             /\ UNCHANGED <<packages, healthy>>
  /\ ApiAfterPackage
  /\ UNCHANGED <<fixedVars, pkgsLeft, faults, untilReset, batches, index,
                 batchResults, pkgs, results, versions, disk, status, offered,
                 batchLog, snapshots, rootResult>>
  /\ UNCHANGED versionless

\* lines 181-186: the statistics generateApiFiles writes
ApiStatsWrite == << [kind |-> "stats", content |-> stats] >>

\* lines 160-193 and 252: the writes of generateApiFiles, in order
ApiWrites(ps) ==
  ListWrite(ps) \o ShardWrites(ps) \o PackageWrites(ps) \o ApiStatsWrite \o IndexWrite

\* lines 287-292: generateApiFiles, and process.exit(1) when it throws
ApiFinalSave ==
  /\ variant = Api
  /\ pc = "finalsave"
  /\ pc' = "done"
  /\ \E n \in 0..Len(ApiWrites(packages)) :
       /\ SaveOutcome(ApiWrites(packages), n)
       /\ status' = IF n = Len(ApiWrites(packages)) THEN "ok" ELSE "failed"
  /\ UNCHANGED <<fixedVars, pkgsLeft, untilReset, calls, packages, stats,
                 flowVars, offered, started, healthy, batchLog, rootResult, failed, versionless>>

ApiNext ==
  \/ ApiStart
  \/ ApiOk
  \/ ApiQuota
  \/ ApiError
  \/ ApiCoolDown
  \/ ApiBackoff
  \/ ApiRootListed
  \/ ApiPublisherListed
  \/ ApiVersionsListed
  \/ ApiFilesListed
  \/ ApiContentFetched
  \/ ApiFinalSave

(***************************************************************************)
(* Workflow: fetchWithRetry (update-api.yml, lines 87-102)                 *)
(***************************************************************************)
\* a call that threw, or whose undefined result throws at the first use
\* (publishers.filter, packages.filter, versions.filter, manifestFiles.find)
WorkflowFailed(c) == c.res # "data"

\* lines 88-90: a call of fetchWithRetry suspends in its first sleep
WorkflowCall(ctx) == [IdleCall EXCEPT !.st = "sleep", !.ctx = ctx]

\* lines 88 and 97: i++ and the loop test after the 30 s of a 429
WorkflowContinue(c) ==
  IF c.i + 1 < Retries
  THEN [c EXCEPT !.i = @ + 1, !.st = "sleep"]
  ELSE [c EXCEPT !.i = @ + 1, !.st = "done", !.res = "undefined"]

\* nothing awaits the result of a call that outlived its Promise.all
Settle(s, c) == IF s \in OrphanSlots /\ c.st = "done" THEN IdleCall ELSE c

\* the calls of the current Promise.all that have not settled
Pending(except) ==
  {t \in GatherSlots \ {except} : calls[t].st \notin {"idle", "done"}}

FreeOrphanSlots == {o \in OrphanSlots : calls[o].st = "idle"}

\* line 90 ends, line 91
WorkflowAttempt(s) ==
  /\ variant = Workflow
  /\ calls[s].st = "sleep"
  /\ calls' = [calls EXCEPT ![s] = Issue(@, requestDelay)]
  /\ UNCHANGED <<fixedVars, pkgsLeft, faults, untilReset, pc, packages, stats,
                 flowVars, disk, status, historyVars>>

\* lines 91-92; what a manifest holds is settled when it is parsed
WorkflowOk(s) ==
  /\ variant = Workflow
  /\ calls[s].st = "inflight"
  /\ IF s # 0
     THEN /\ calls' = [calls EXCEPT ![s] = Settle(s, Returned([@ EXCEPT !.log = Append(@, "ok")], <<>>))]
          /\ UNCHANGED pkgsLeft
     ELSE \E data \in Served(calls[s].ctx) :
            /\ calls' = [calls EXCEPT ![s] = Returned([@ EXCEPT !.log = Append(@, "ok")], data)]
            /\ pkgsLeft' = IF calls[s].ctx = "publisher"
                           THEN pkgsLeft - Len(FilterDirs(data)) ELSE pkgsLeft
  /\ UNCHANGED <<fixedVars, faults, untilReset, pc, packages, stats, flowVars,
                 disk, status, historyVars>>

\* lines 93-97: the answer is 429
WorkflowQuota(s) ==
  /\ variant = Workflow
  /\ calls[s].st = "inflight"
  /\ faults > 0
  /\ faults' = faults - 1
  /\ calls' = [calls EXCEPT ![s] = [@ EXCEPT !.st = "cooldown", !.log = Append(@, "quota")]]
  /\ UNCHANGED <<fixedVars, pkgsLeft, untilReset, pc, packages, stats, flowVars,
                 disk, status, historyVars>>

\* lines 93-99: any other failure is rethrown at once; the calls a rejected
\* Promise.all leaves behind need a free slot each
WorkflowError(s) ==
  /\ variant = Workflow
  /\ calls[s].st = "inflight"
  /\ faults > 0
  /\ s \in GatherSlots => Cardinality(Pending(s)) <= Cardinality(FreeOrphanSlots)
  /\ faults' = faults - 1
  /\ calls' = [calls EXCEPT ![s] = Settle(s, Threw([@ EXCEPT !.log = Append(@, "error")]))]
  /\ UNCHANGED <<fixedVars, pkgsLeft, untilReset, pc, packages, stats, flowVars,
                 disk, status, historyVars>>

\* line 96 ends, line 97
WorkflowCoolDown(s) ==
  /\ variant = Workflow
  /\ calls[s].st = "cooldown"
  /\ calls' = [calls EXCEPT ![s] = Settle(s, WorkflowContinue(@))]
  /\ UNCHANGED <<fixedVars, pkgsLeft, faults, untilReset, pc, packages, stats,
                 flowVars, disk, status, historyVars>>

(***************************************************************************)
(* Workflow: building a record (update-api.yml, lines 104-163)             *)
(***************************************************************************)
\* the characters of a version name: the digits of each component, a letter
\* (10) for a component that is no number, and "." (-1) between components
Digits(n) == IF n = NaN THEN << 10 >>
             ELSE IF n < 10 THEN << n >> ELSE << n \div 10, n % 10 >>

RECURSIVE Spell(_)
Spell(name) ==
  IF name = <<>> THEN <<>>
  ELSE IF Len(name) = 1 THEN Digits(name[1])
  ELSE Digits(name[1]) \o << -1 >> \o Spell(Tail(name))

\* a.localeCompare(b) on such names: punctuation sorts before the digits, the
\* digits before the letters, and a prefix before its extensions
LocaleCompare(a, b) ==
  LET x == Spell(a)
      y == Spell(b)
      differ == {i \in 1..Min(Len(x), Len(y)) : x[i] # y[i]}
  IN IF differ = {} THEN Len(x) - Len(y)
     ELSE LET i == CHOOSE j \in differ : \A k \in differ : j <= k
          IN x[i] - y[i]

\* line 111: (a, b) => b.name.localeCompare(a.name)
WorkflowCompare(a, b) == LocaleCompare(b.name, a.name)

RECURSIVE WorkflowInsert(_, _)
\* x goes behind every element that does not sort after it
WorkflowInsert(sorted, x) ==
  IF sorted = <<>> THEN << x >>
  ELSE IF WorkflowCompare(x, Head(sorted)) < 0 THEN << x >> \o sorted
  ELSE << Head(sorted) >> \o WorkflowInsert(Tail(sorted), x)

RECURSIVE WorkflowSort(_)
\* line 111: Array.prototype.sort, a stable sort
WorkflowSort(entries) ==
  IF entries = <<>> THEN <<>>
  ELSE WorkflowInsert(WorkflowSort(SubSeq(entries, 1, Len(entries) - 1)),
                      entries[Len(entries)])

\* a file name is the sequence of the parts its dots separate, each of them
\* the package id ("id") or one of the words the code looks for
\* name.includes(pat), pat a sequence of whole parts
Includes(name, pat) ==
  \E k \in 0..(Len(name) - Len(pat)) : \A j \in 1..Len(pat) : name[k + j] = pat[j]

\* name.endsWith('.' + ext)
EndsWith(name, ext) == Len(name) >= 2 /\ name[Len(name)] = ext

\* line 121: includes('installer.yaml') || includes('installer.yml')
InstallerName(name) ==
  Includes(name, << "installer", "yaml" >>) \/ Includes(name, << "installer", "yml" >>)

\* line 122: includes('locale.en-US.yaml') || includes('locale.en-US.yml')
LocaleName(name) ==
  \/ Includes(name, << "locale", "en-US", "yaml" >>)
  \/ Includes(name, << "locale", "en-US", "yml" >>)

\* line 123: !includes('installer') && !includes('locale') &&
\* (endsWith('.yaml') || endsWith('.yml'))
DefaultName(name) ==
  /\ ~Includes(name, << "installer" >>) /\ ~Includes(name, << "locale" >>)
  /\ EndsWith(name, "yaml") \/ EndsWith(name, "yml")

\* the name of a file of the crawled tree
NameOf(f) ==
  (CASE f.stem = "installer" -> << "id", "installer" >>
     [] f.stem = "locale.en-US" -> << "id", "locale", "en-US" >>
     [] OTHER -> << "id" >>) \o << f.ext >>

\* lines 121-123: which manifest a file of the version directory is
IsInstaller(f) == InstallerName(NameOf(f))
IsLocale(f) == LocaleName(NameOf(f))
IsDefault(f) == DefaultName(NameOf(f))

\* lines 121-123: manifestFiles.find(...) is not undefined
Found(files, kind) ==
  \E n \in 1..Len(files) :
    CASE kind = "installer" -> IsInstaller(files[n])
      [] kind = "locale" -> IsLocale(files[n])
      [] OTHER -> IsDefault(files[n])

\* a name belongs to a category
Matches(name, kind) ==
  CASE kind = "installer" -> InstallerName(name)
    [] kind = "locale" -> LocaleName(name)
    [] OTHER -> DefaultName(name)

\* lines 121-123: manifestFiles.find(...), as the place of the file found in
\* the listing (0: undefined)
Find(names, kind) ==
  IF \E n \in 1..Len(names) : Matches(names[n], kind)
  THEN CHOOSE n \in 1..Len(names) :
         /\ Matches(names[n], kind)
         /\ \A m \in 1..(n - 1) : ~Matches(names[m], kind)
  ELSE 0

\* lines 133-135: x ? yaml.parse(x) : {}, for what call c fetched
EmptyDoc ==
  [parse |-> "ok", PackageName |-> 0, Publisher |-> 0, Tags |-> NoTags] @@ NoProse
ParsedOrEmpty(c) ==
  IF c.st = "done" /\ c.res = "data"
  THEN Served(c.ctx) ELSE {EmptyDoc}

\* line 145: localeData.Tags ? localeData.Tags.split(',').map(t => t.trim()) : []
WorkflowTags(tags) ==
  IF tags.kind = "string" /\ tags.text # <<>> THEN MapTrim(SplitComma(tags.text)) ELSE <<>>

\* a record that asks the primary document before the locale document
RecordPrimaryFirst(pub, pkg, vs, locale, main) ==
  [id |-> JoinId(pub, pkg),
   versions |-> [n \in 1..Len(vs) |-> vs[n].name],
   latest |-> [name |-> OrElse(main.PackageName, OrElse(locale.PackageName, pkg)),
               publisher |-> OrElse(main.Publisher, OrElse(locale.Publisher, pub)),
               version |-> vs[1].name,
               description |-> OrElse(main.Description,
                                      OrElse(locale.ShortDescription, locale.Description)),
               tags |-> WorkflowTags(locale.Tags),
               homepage |-> OrElse(main.Homepage, locale.Homepage),
               license |-> OrElse(main.License, locale.License),
               author |-> OrElse(main.Author, locale.Author)]]

\* lines 137-158: the record of a package
WorkflowRecord(pub, pkg, vs, locale, main) ==
  [id |-> JoinId(pub, pkg),
   versions |-> [n \in 1..Len(vs) |-> vs[n].name],
   latest |-> [name |-> OrElse(locale.PackageName, OrElse(main.PackageName, pkg)),
               publisher |-> OrElse(locale.Publisher, OrElse(main.Publisher, pub)),
               version |-> vs[1].name,
               description |-> OrElse(locale.ShortDescription, locale.Description),
               tags |-> WorkflowTags(locale.Tags),
               homepage |-> OrElse(locale.Homepage, main.Homepage),
               license |-> OrElse(locale.License, main.License),
               author |-> OrElse(locale.Author, main.Author)]]

\* lines 133-158 run to the end: every document parsed to a mapping, and
\* Tags, if there, had a split
Builds(installer, locale, main) ==
  /\ installer.parse = "ok" /\ locale.parse = "ok" /\ main.parse = "ok"
  /\ locale.Tags.kind # "list"

(***************************************************************************)
(* Workflow: the crawl (update-api.yml, lines 104-232)                     *)
(***************************************************************************)
RECURSIVE Ascending(_)
\* the numbers of a set, the least first
Ascending(S) ==
  IF S = {} THEN <<>>
  ELSE LET least == CHOOSE x \in S : \A y \in S : x <= y
       IN << least >> \o Ascending(S \ {least})

\* lines 126-130: the calls Promise.all awaits, one for each manifest found
Gather(files) ==
  [s \in Slots |->
     IF s \in GatherSlots /\ Found(files, ManifestKinds[s])
     THEN WorkflowCall(ManifestKinds[s])
     ELSE IF s \in GatherSlots THEN IdleCall ELSE calls[s]]

\* a Promise.all that rejected leaves its unsettled calls running
Abandon ==
  LET left == Ascending(Pending(0))
      free == Ascending(FreeOrphanSlots)
  IN [s \in Slots |->
        IF s \in GatherSlots THEN IdleCall
        ELSE IF \E k \in 1..Len(left) : free[k] = s
        THEN [calls[left[CHOOSE k \in 1..Len(left) : free[k] = s]]
                EXCEPT !.ctx = "orphan", !.log = <<>>]
        ELSE calls[s]]

\* lines 200-204
WorkflowStart ==
  /\ variant = Workflow
  /\ pc = "start"
  /\ pc' = "root"
  /\ calls' = [calls EXCEPT ![0] = WorkflowCall("root")]
  /\ UNCHANGED <<fixedVars, pkgsLeft, faults, untilReset, packages, stats,
                 flowVars, disk, status, historyVars>>

\* lines 204-215, and 229-231 when the listing failed
WorkflowRootListed ==
  /\ variant = Workflow
  /\ pc = "root" /\ calls[0].st = "done"
  /\ rootResult' = calls[0].res
  /\ IF WorkflowFailed(calls[0])
     THEN /\ pc' = "done"
          /\ status' = "failed"
          /\ Release
          /\ UNCHANGED <<batches, index, pubPos, batchResults>>
     ELSE /\ batches' = Slices(Names(FilterDirs(calls[0].data)))
          /\ status' = status
          /\ IF batches' = <<>>
             THEN /\ pc' = "finalsave"
                  /\ Release
                  /\ UNCHANGED <<index, pubPos, batchResults>>
             ELSE /\ BeginPublisher(0, 1)
                  /\ batchResults' = <<>>
  /\ UNCHANGED <<fixedVars, pkgsLeft, faults, untilReset, packages, stats,
                 pkgs, pkgPos, results, versions, disk, offered, started,
                 healthy, batchLog, snapshots, failed, versionless>>

\* lines 168-173, and 184-187 when the listing failed; then 194-195
WorkflowPublisherListed ==
  /\ variant = Workflow
  /\ pc = "publisher" /\ calls[0].st = "done"
  /\ pkgs' = IF WorkflowFailed(calls[0]) THEN <<>> ELSE Names(FilterDirs(calls[0].data))
  /\ results' = <<>>
  /\ offered' = offered \o [n \in 1..Len(pkgs') |-> <<CurPub, pkgs'[n]>>]
  /\ IF pkgs' = <<>>
     THEN /\ pc' = "batchsleep"
          /\ Release
          /\ UNCHANGED <<pkgPos, versions, started>>
     ELSE BeginPackage(1)
  /\ UNCHANGED <<fixedVars, pkgsLeft, faults, untilReset, packages, stats,
                 batches, index, pubPos, batchResults, disk, status, healthy,
                 batchLog, snapshots, rootResult, failed, versionless>>

\* lines 110-118, and 159-162 when the listing failed
WorkflowVersionsListed ==
  /\ variant = Workflow
  /\ pc = "versions" /\ calls[0].st = "done"
  /\ failed' = IF WorkflowFailed(calls[0]) THEN failed \cup {<<CurPub, CurPkg>>} ELSE failed
  /\ versions' = IF WorkflowFailed(calls[0]) THEN <<>>
                 ELSE WorkflowSort(FilterDirs(calls[0].data))
  /\ versionless' = IF ~WorkflowFailed(calls[0]) /\ NoDirectory(calls[0].data)
                    THEN versionless \cup {<<CurPub, CurPkg>>} ELSE versionless
  /\ IF versions' = <<>>
     THEN /\ pc' = "pkgsleep"
          /\ Release
     ELSE /\ pc' = "files"
          /\ calls' = [calls EXCEPT ![0] = WorkflowCall("files")]
  /\ UNCHANGED <<fixedVars, pkgsLeft, faults, untilReset, packages, stats,
                 batches, index, pubPos, batchResults, pkgs, pkgPos, results,
                 disk, status, offered, started, healthy, batchLog, snapshots, rootResult>>

\* lines 118-130, and 159-162 when the listing failed
WorkflowFilesListed ==
  /\ variant = Workflow
  /\ pc = "files" /\ calls[0].st = "done"
  /\ failed' = IF WorkflowFailed(calls[0]) THEN failed \cup {<<CurPub, CurPkg>>} ELSE failed
  /\ IF WorkflowFailed(calls[0])
     THEN /\ pc' = "pkgsleep"
          /\ Release
     ELSE /\ pc' = "gather"
          /\ calls' = [Gather(calls[0].data) EXCEPT ![0] = IdleCall]
  /\ UNCHANGED <<fixedVars, pkgsLeft, faults, untilReset, packages, stats,
                 flowVars, disk, status, offered, started, healthy, batchLog, snapshots, rootResult>>
  /\ UNCHANGED versionless

\* lines 126-158 and 173-177: every call of the Promise.all has returned
WorkflowGathered ==
  /\ variant = Workflow
  /\ pc = "gather"
  /\ Pending(0) = {}
  /\ \A s \in GatherSlots : calls[s].res # "threw"
  /\ \E installer \in ParsedOrEmpty(calls[1]), locale \in ParsedOrEmpty(calls[2]),
        main \in ParsedOrEmpty(calls[3]) :
       IF Builds(installer, locale, main)
       THEN /\ results' = Append(results, WorkflowRecord(CurPub, CurPkg, versions, locale, main))
            /\ healthy' = healthy \cup {<<CurPub, CurPkg>>}
            /\ UNCHANGED failed
       ELSE /\ failed' = failed \cup {<<CurPub, CurPkg>>}
            /\ UNCHANGED <<results, healthy>>
  /\ pc' = "pkgsleep"
  /\ calls' = [s \in Slots |-> IF s \in GatherSlots THEN IdleCall ELSE calls[s]]
  /\ UNCHANGED <<fixedVars, pkgsLeft, faults, untilReset, packages, stats,
                 batches, index, pubPos, batchResults, pkgs, pkgPos, versions,
                 disk, status, offered, started, batchLog, snapshots, rootResult>>
  /\ UNCHANGED versionless

\* lines 126-130 and 159-162: a call of the Promise.all threw
WorkflowRejected ==
  /\ variant = Workflow
  /\ pc = "gather"
  /\ failed' = failed \cup {<<CurPub, CurPkg>>}
  /\ \E s \in GatherSlots : calls[s].res = "threw"
  /\ pc' = "pkgsleep"
  /\ calls' = Abandon
  /\ UNCHANGED <<fixedVars, pkgsLeft, faults, untilReset, packages, stats,
                 flowVars, disk, status, offered, started, healthy, batchLog, snapshots, rootResult>>
  /\ UNCHANGED versionless

\* line 181 ends; lines 171-173 or 183 and 194-195
WorkflowPackageSleep ==
  /\ variant = Workflow
  /\ pc = "pkgsleep"
  /\ UNCHANGED pkgs
  /\ IF pkgPos < Len(pkgs)
     THEN /\ BeginPackage(pkgPos + 1)
          /\ UNCHANGED batchResults
     ELSE /\ pc' = "batchsleep"
          /\ batchResults' = batchResults \o results
          /\ UNCHANGED <<calls, pkgPos, versions, started>>
  /\ UNCHANGED <<fixedVars, pkgsLeft, faults, untilReset, packages, stats,
                 batches, index, pubPos, results, disk, status, offered, healthy,
                 batchLog, snapshots, rootResult, failed, versionless>>

\* line 216: this.packages.push(...batchPackages)
WorkflowAccumulate(acc, batch) == acc \o batch

\* line 195 ends; lines 192-193, or 197 and 215-226
WorkflowBatchSleep ==
  /\ variant = Workflow
  /\ pc = "batchsleep"
  /\ IF pubPos < Len(batches[index + 1])
     THEN /\ BeginPublisher(index, pubPos + 1)
          /\ UNCHANGED <<packages, batchResults, batchLog>>
     ELSE /\ packages' = WorkflowAccumulate(packages, batchResults)
          /\ batchLog' = Append(batchLog, batchResults)
          /\ IF index % CheckpointEvery = 0
             THEN /\ pc' = "checkpoint"
                  /\ UNCHANGED <<calls, index, pubPos, batchResults>>
             ELSE ContinueLoop
  /\ UNCHANGED <<fixedVars, pkgsLeft, faults, untilReset, stats, batches, pkgs,
                 pkgPos, results, versions, disk, status, offered, started,
                 healthy, snapshots, rootResult, failed, versionless>>

(***************************************************************************)
(* Workflow: saveFiles (update-api.yml, lines 234-361)                     *)
(***************************************************************************)
\* lines 274 and 283: s.replace(/[^a-zA-Z0-9-]/g, '_')
Sanitize(name) ==
  Unchars([i \in DOMAIN Chars(name) |->
             IF Chars(name)[i] \in {Dot, Blank} THEN Underscore
             ELSE Chars(name)[i]])

\* lines 264-279
WorkflowShardWrites(ps) ==
  LET order == PublisherOrder(ps, {})
  IN [n \in 1..Len(order) |->
        [kind |-> "shard", key |-> Sanitize(order[n]),
         content |-> ByPublisher(ps, order[n])]]

\* lines 282-288
WorkflowPackageWrites(ps) ==
  [n \in 1..Len(ps) |->
     [kind |-> "pkg", key |-> Sanitize(ps[n].id),
      content |-> ps[n]]]

\* lines 243-355: the writes of saveFiles, in order
WorkflowWrites(ps) ==
  ListWrite(ps) \o StatsWrite(ps) \o WorkflowShardWrites(ps)
  \o WorkflowPackageWrites(ps) \o IndexWrite

\* line 221, saveFiles after a batch, which catches what its writes throw
\* (lines 358-360); then 222 and the loop
WorkflowCheckpoint ==
  /\ variant = Workflow
  /\ pc = "checkpoint"
  /\ \E n \in 0..Len(WorkflowWrites(packages)) :
       SaveOutcome(WorkflowWrites(packages), n)
  /\ ContinueLoop
  /\ UNCHANGED <<fixedVars, pkgsLeft, untilReset, packages, stats, batches,
                 pkgs, pkgPos, results, versions, status, offered, started,
                 healthy, batchLog, rootResult, failed, versionless>>

\* lines 226-227, the final saveFiles
WorkflowFinalSave ==
  /\ variant = Workflow
  /\ pc = "finalsave"
  /\ \E n \in 0..Len(WorkflowWrites(packages)) :
       SaveOutcome(WorkflowWrites(packages), n)
  /\ pc' = "done"
  /\ status' = "ok"
  /\ UNCHANGED <<fixedVars, pkgsLeft, untilReset, calls, packages, stats,
                 flowVars, offered, started, healthy, batchLog, rootResult, failed, versionless>>

WorkflowNext ==
  \/ WorkflowStart
  \/ \E s \in Slots : WorkflowAttempt(s)
  \/ \E s \in Slots : WorkflowOk(s)
  \/ \E s \in Slots : WorkflowQuota(s)
  \/ \E s \in Slots : WorkflowError(s)
  \/ \E s \in Slots : WorkflowCoolDown(s)
  \/ WorkflowRootListed
  \/ WorkflowPublisherListed
  \/ WorkflowVersionsListed
  \/ WorkflowFilesListed
  \/ WorkflowGathered
  \/ WorkflowRejected
  \/ WorkflowPackageSleep
  \/ WorkflowBatchSleep
  \/ WorkflowCheckpoint
  \/ WorkflowFinalSave

(***************************************************************************)
(* Specifications                                                          *)
(***************************************************************************)
\* the state after the constructor
Fresh ==
  /\ calls = [s \in Slots |-> IdleCall]
  /\ untilReset = 0
  /\ packages = <<>>
  /\ stats = [totalPackages |-> 0, totalPublishers |-> 0, processingErrors |-> 0]
  /\ batches = <<>>
  /\ index = 0
  /\ pubPos = 0
  /\ batchResults = <<>>
  /\ pkgs = <<>>
  /\ pkgPos = 0
  /\ results = <<>>
  /\ versions = <<>>
  /\ disk = EmptyDisk
  /\ status = "running"
  /\ offered = <<>>
  /\ started = <<>>
  /\ healthy = {}
  /\ batchLog = <<>>
  /\ snapshots = <<>>
  /\ rootResult = "none"
  /\ failed = {}
  /\ versionless = {}

\* the generator object, before its first step
Constructed == pc = "start" /\ Fresh

\* the package directories and the failures of a run: the generators that
\* await one call at a time run with both at their bounds, the one whose
\* calls run side by side with either at its bound; the tree with dotted
\* names is crawled without failures
Budgets(v) ==
  IF v = Workflow
  THEN {[packages |-> MaxPackages, faults |-> FewFaults, dotted |-> FALSE],
        [packages |-> MaxPackages - 1, faults |-> MaxFaults, dotted |-> FALSE],
        [packages |-> MaxPackages, faults |-> 0, dotted |-> TRUE]}
  ELSE {[packages |-> MaxPackages, faults |-> MaxFaults, dotted |-> FALSE],
        [packages |-> MaxPackages, faults |-> 0, dotted |-> TRUE]}

\* a crawl applies no function on its own
NoArgs == [fn |-> "none"]

\* a run against a small remote tree, with failures
Init ==
  /\ variant \in Variants
  /\ args = NoArgs
  /\ returned = <<>>
  /\ rootMin = 0
  /\ rootMax = MaxPublishers
  /\ \E b \in Budgets(variant) :
       /\ pkgsLeft = b.packages
       /\ faults = b.faults
       /\ dotted = b.dotted
  /\ Constructed

Next == DetailedNext \/ ApiNext \/ WorkflowNext

Spec == Init /\ [][Next]_vars

\* a run against a tree of up to FairPublishers publishers and one package,
\* with as many failures as a call has attempts
InitFair ==
  /\ variant \in Variants
  /\ args = NoArgs
  /\ returned = <<>>
  /\ rootMin = 0
  /\ rootMax = FairPublishers
  /\ dotted = FALSE
  /\ pkgsLeft = MaxPackages - 1
  /\ faults = MaxFaults
  /\ Constructed

\* the event loop runs the callback of every timer that expires and of every
\* response that arrives, and every request gets a response
SpecFair == InitFair /\ [][Next]_vars /\ WF_vars(Next)

\* the budgets of a run over a long tree: every package directory and no
\* failure, or a failure and a package directory less
LongBudgets ==
  {[packages |-> LongPackages, faults |-> 0],
   [packages |-> LongPackages - 1, faults |-> LongFaults]}

\* a run against a long remote tree, with few packages and failures
InitLong ==
  /\ variant \in Variants
  /\ args = NoArgs
  /\ returned = <<>>
  /\ rootMin = MaxLongRoot
  /\ rootMax = MaxLongRoot
  /\ dotted = FALSE
  /\ \E b \in LongBudgets :
       /\ pkgsLeft = b.packages
       /\ faults = b.faults
  /\ Constructed

SpecLong == InitLong /\ [][Next]_vars

(***************************************************************************)
(* Crawls of generate-api.js over a remote tree that is fixed beforehand   *)
(***************************************************************************)
\* what the remote holds for a package: its version listing, the file
\* listing of a version and the manifest
Leaves ==
  LET twoVersions == << [name |-> <<1, 2>>, type |-> "dir"],
                        [name |-> <<1, 10>>, type |-> "dir"],
                        [name |-> <<0>>, type |-> "file"] >>
      readme == [stem |-> "", ext |-> "md"]
      manifest == [stem |-> "", ext |-> "yaml"]
      plain == [parse |-> "ok", PackageName |-> 0, Publisher |-> 0, Tags |-> NoTags]
               @@ NoProse
      tagged == [parse |-> "ok", PackageName |-> 7, Publisher |-> 9,
                 Tags |-> [kind |-> "string", text |-> <<"a", ",", " ", ",", "b", " ">>]]
                @@ NoProse
      broken == [parse |-> "throws", PackageName |-> 0, Publisher |-> 0, Tags |-> NoTags]
                @@ NoProse
  IN { [versions |-> << >>, files |-> << >>, content |-> plain],
       [versions |-> twoVersions, files |-> << readme >>, content |-> plain],
       [versions |-> twoVersions, files |-> << manifest >>, content |-> plain],
       [versions |-> twoVersions, files |-> << readme, manifest >>, content |-> tagged],
       [versions |-> twoVersions, files |-> << readme, manifest >>, content |-> broken] }

\* the directories a listing names
DirNames(listing) == Range(Names(FilterDirs(listing)))

\* the package directories under the publishers, given their listings
NodesOf(listings) ==
  UNION {{<< pub, pkg >> : pkg \in DirNames(listings[pub])} : pub \in DOMAIN listings}

\* the trees of MaxPublishers publishers and up to MaxPackages
\* packages, a file beside the directories of every publisher
Trees ==
  UNION {UNION {{[root |-> r, pkgs |-> p, leaf |-> l] : l \in [NodesOf(p) -> Leaves]}
                : p \in {q \in [DirNames(r) -> {Listing(d, 1) : d \in 0..MaxPackages}] :
                           Cardinality(NodesOf(q)) <= MaxPackages}}
         : r \in RootListings(MaxPublishers, MaxPublishers)}

RECURSIVE RecordsOfPackages(_, _, _)
\* the records of the packages of a publisher, in the order of its listing
RecordsOfPackages(tree, pub, names) ==
  IF names = <<>> THEN <<>>
  ELSE LET leaf == tree.leaf[<< pub, Head(names) >>]
           built == /\ FilterDirs(leaf.versions) # <<>>
                    /\ FilterYaml(leaf.files) # <<>>
                    /\ leaf.content.parse = "ok"
                    /\ leaf.content.Tags.kind # "list"
       IN (IF built
           THEN << DetailedRecord(pub, Head(names), FilterDirs(leaf.versions),
                                  leaf.content) >>
           ELSE <<>>)
          \o RecordsOfPackages(tree, pub, Tail(names))

RECURSIVE RecordsOfPublishers(_, _)
\* the records of the publishers, in the order of the root listing
RecordsOfPublishers(tree, names) ==
  IF names = <<>> THEN <<>>
  ELSE RecordsOfPackages(tree, Head(names), Names(FilterDirs(tree.pkgs[Head(names)])))
       \o RecordsOfPublishers(tree, Tail(names))

\* the records a remote tree holds
RecordsOf(tree) == RecordsOfPublishers(tree, Names(FilterDirs(tree.root)))

\* a run of generate-api.js against one remote tree, with failures
InitTree ==
  /\ variant = Detailed
  /\ rootMin = MaxPublishers /\ rootMax = MaxPublishers /\ dotted = FALSE
  /\ pkgsLeft = MaxPackages /\ faults = MaxFaults
  /\ \E t \in Trees : args = [fn |-> "crawl", tree |-> t]
  /\ returned = <<>>
  /\ Constructed

SpecTree == InitTree /\ [][DetailedNext]_vars

(***************************************************************************)
(* The functions of the record path, applied on their own                  *)
(***************************************************************************)
\* entries of a version listing at most
MaxListing == 3

\* the names "1.2", "1.2.0", "1.10.0", "0", "beta" and "2.beta"
VersionNames ==
  { <<1, 2>>, <<1, 2, 0>>, <<1, 10, 0>>, <<0>>, <<NaN>>, <<2, NaN>> }

\* the entries a version listing may hold: a directory of each name, a file
VersionEntries ==
  {[name |-> v, type |-> "dir"] : v \in VersionNames}
  \cup {[name |-> <<0>>, type |-> "file"]}

\* the listings of up to MaxListing entries, no entry twice
ListingsOf(entries) ==
  UNION {{l \in [1..n -> entries] : \A i, j \in 1..n : i # j => l[i] # l[j]}
         : n \in 0..MaxListing}

\* part_000, lines 78-90: fetchPackageVersions on a listing that was fetched
SortVersions ==
  /\ pc = "call" /\ args.fn = "fetchPackageVersions"
  /\ returned' = ApiSort(FilterDirs(args.listing))
  /\ pc' = "returned"
  /\ UNCHANGED <<variant, rootMin, rootMax, dotted, args, pkgsLeft, faults,
                 calls, untilReset, packages, stats, flowVars, disk, status,
                 historyVars>>

\* the documents a manifest of running text may parse to: each field is
\* missing or holds the value v (the short description: v + 2)
DocsWith(v) ==
  [parse : {"ok"}, PackageName : {0, v}, Publisher : {0, v}, Tags : {NoTags},
   Description : {0, v}, ShortDescription : {0, v + 2}, Homepage : {0, v},
   License : {0, v}, Author : {0, v}]
LocaleDocs == DocsWith(1)
PrimaryDocs == DocsWith(2)

\* update-api.yml, lines 137-158: the record processPackage builds from
\* the documents it has parsed
BuildRecord ==
  /\ pc = "call" /\ args.fn = "processPackage"
  /\ returned' = WorkflowRecord(args.pub, args.pkg, args.vs, args.locale, args.main)
  /\ pc' = "returned"
  /\ UNCHANGED <<variant, rootMin, rootMax, dotted, args, pkgsLeft, faults,
                 calls, untilReset, packages, stats, flowVars, disk, status,
                 historyVars>>

\* characters of a Tags string at most
MaxTagText == 4

\* the Tags a manifest may hold: none, or a string of letters, commas and
\* blanks
TagTexts ==
  UNION {[1..n -> {"a", "b", ",", " "}] : n \in 0..MaxTagText}
TagFields ==
  {NoTags} \cup {[kind |-> "string", text |-> t] : t \in TagTexts}

\* generate-api.js line 119, part_000 line 124, update-api.yml line 145: the
\* tags processPackage gives the record
ParseTags ==
  /\ pc = "call" /\ args.fn = "tags"
  /\ returned' = CASE variant = Detailed -> DetailedTags(args.tags)
                    [] variant = Api -> ApiTags(args.tags)
                    [] OTHER -> WorkflowTags(args.tags)
  /\ pc' = "returned"
  /\ UNCHANGED <<variant, rootMin, rootMax, dotted, args, pkgsLeft, faults,
                 calls, untilReset, packages, stats, flowVars, disk, status,
                 historyVars>>

\* files of a version directory at most
MaxFiles == 3

\* the names of the files of a version directory
FileNames ==
  { << "id", "installer", "yaml" >>,
    << "id", "locale", "en-US", "yaml" >>,
    << "id", "locale", "de-DE", "yaml" >>,
    << "id", "yml" >>,
    << "id", "md" >>,
    << "id", "installer", "yaml", "locale", "en-US", "yaml" >> }

NameListings == UNION {[1..n -> FileNames] : n \in 0..MaxFiles}

\* update-api.yml, lines 121-123: the three finds of processPackage
Classify ==
  /\ pc = "call" /\ args.fn = "classify"
  /\ returned' = [kind \in Range(ManifestKinds) |-> Find(args.names, kind)]
  /\ pc' = "returned"
  /\ UNCHANGED <<variant, rootMin, rootMax, dotted, args, pkgsLeft, faults, calls,
                 untilReset, packages, stats, flowVars, disk, status, historyVars>>

\* the functions and the arguments they are applied to
Applications ==
  {[variant |-> Api, args |-> [fn |-> "fetchPackageVersions", listing |-> l]] :
     l \in ListingsOf(VersionEntries)}
  \cup {[variant |-> Workflow,
          args |-> [fn |-> "processPackage", pub |-> 5, pkg |-> 6,
                    vs |-> << [name |-> <<1, 2>>, type |-> "dir"] >>,
                    locale |-> l, main |-> m]] :
          l \in LocaleDocs, m \in PrimaryDocs}
  \cup {[variant |-> v, args |-> [fn |-> "tags", tags |-> t]] :
          v \in Variants, t \in TagFields}
  \cup {[variant |-> Workflow, args |-> [fn |-> "classify", names |-> l]] :
          l \in NameListings}

InitPure ==
  /\ \E a \in Applications : variant = a.variant /\ args = a.args
  /\ rootMin = 0 /\ rootMax = 0 /\ dotted = FALSE
  /\ pkgsLeft = 0 /\ faults = 0
  /\ pc = "call"
  /\ Fresh
  /\ returned = <<>>

NextPure == SortVersions \/ BuildRecord \/ ParseTags \/ Classify

SpecPure == InitPure /\ [][NextPure]_vars


(***************************************************************************)
(* Properties of the fetch layer                                           *)
(***************************************************************************)
\* the calls of fetchWithRetry in generate-api.js and part_000 (Detailed's
\* getManifestContent sends its request without it)
FetchCalls ==
  IF variant \in {Detailed, Api}
  THEN {s \in Slots : calls[s].ctx # "none" /\ ~(variant = Detailed /\ calls[s].ctx = "content")}
  ELSE {}

OnlyErrors(c) == c.log # <<>> /\ \A n \in 1..Len(c.log) : c.log[n] = "error"

\* C1: a fetchWithRetry call with retries = 3 whose every attempt is answered
\* with a transient (non-quota) failure issues exactly 3 requests, never a
\* 4th, and then throws to its caller; it does not return a document
C1_RetryCeiling ==
  \A s \in FetchCalls :
    OnlyErrors(calls[s]) =>
      /\ calls[s].reqs <= Retries
      /\ calls[s].st = "done" <=> Len(calls[s].log) = Retries
      /\ calls[s].st = "done" => calls[s].res = "threw" /\ calls[s].reqs = Retries

C1_Witness ==
  \E s \in FetchCalls :
    /\ OnlyErrors(calls[s]) /\ Len(calls[s].log) = Retries
    /\ calls[s].st = "done" /\ calls[s].res = "threw" /\ calls[s].reqs = Retries

\* C2: a fetchWithRetry call never completes normally unless one of its
\* attempts received a successful response; answered with the quota signal
\* every time, it ends by throwing once the retry ceiling is reached
C2_QuotaExhaustionThrows ==
  \A s \in FetchCalls :
    calls[s].st = "done" /\ calls[s].res # "threw" => "ok" \in Range(calls[s].log)

\* C3: after a response that reports a quota below the low-water mark and a
\* reset time in the future, no request is sent before that time, whichever
\* operation received the response
C3_NoRequestBeforeReset ==
  variant = Detailed =>
    \A s \in Slots : calls[s].st = "inflight" => untilReset = 0

\* C4: every request is sent as a sleep of at least requestDelay ends
C4_DelayBeforeEveryRequest ==
  variant \in {Detailed, Api} =>
    \A s \in Slots : calls[s].st = "inflight" => calls[s].gap >= requestDelay

(***************************************************************************)
(* Properties of the crawl                                                 *)
(***************************************************************************)
HasRecord(list, id) ==
  \E n \in 1..Len(list) : list[n].id = JoinId(id[1], id[2])

\* C5: a failure while processing one package never stops the crawl: the
\* directory-type packages of every listed publisher are attempted exactly
\* once each, in order, and when the run ends every package whose fetches
\* and build succeeded has its record in the accumulated set
C5_PackageFailureIsContained ==
  /\ IsPrefix(started, offered)
  /\ \A i, j \in 1..Len(started) : started[i] = started[j] => i = j
  /\ pc = "done" =>
       /\ started = offered
       /\ \A id \in healthy : HasRecord(packages, id)

C5_Witness ==
  /\ pc = "done"
  /\ \E i, j \in 1..Len(started) :
       /\ i < j
       /\ started[i] \in failed
       /\ started[j] \in healthy /\ HasRecord(packages, started[j])

\* C6: when the root listing call fails, the run goes directly to Done as a
\* failure: no publisher or package is processed, no record is accumulated,
\* no batch is started and nothing is written
C6_RootFailureEndsRun ==
  rootResult \notin {"none", "data"} =>
    /\ pc = "done" /\ status = "failed"
    /\ batches = <<>> /\ batchLog = <<>>
    /\ offered = <<>> /\ started = <<>>
    /\ packages = <<>> /\ disk = EmptyDisk
    /\ \A s \in Slots : calls[s].st = "idle"

C6_Witness ==
  /\ variant \in {Detailed, Api}
  /\ rootResult = "threw"
  /\ pc = "done" /\ status = "failed"
  /\ faults = MaxFaults - Retries

\* C7: every run ends having written a final snapshot whose record list is
\* the set of records accumulated up to then, whatever failed on the way
C7_FinalSnapshotWritten ==
  pc = "done" => disk.hasList /\ disk.list = packages

(***************************************************************************)
(* Properties of the snapshots                                             *)
(***************************************************************************)
\* the completed batches whose records the last written record list holds
SavedBatches == IF snapshots = <<>> THEN 0 ELSE snapshots[Len(snapshots)].n

\* C8: once the first batch has completed, the completed batches whose
\* records are not in the record list written last are at most K = 5
C8_BoundedLoss ==
  variant \in {Detailed, Workflow} /\ batchLog # <<>> =>
    Len(batchLog) - SavedBatches <= CheckpointEvery

\* C9: the record list written after batch N holds exactly the records of
\* batches 1..N in the order they were accumulated; accumulated records are
\* never removed or altered, so every written list is a prefix of each later
\* one
C9_SnapshotsAreBatchPrefixes ==
  variant = Detailed =>
    /\ packages = Flatten(batchLog)
    /\ \A k \in 1..Len(snapshots) :
         snapshots[k].list = Flatten(SubSeq(batchLog, 1, snapshots[k].n))
    /\ \A k, m \in 1..Len(snapshots) :
         k <= m => IsPrefix(snapshots[k].list, snapshots[m].list)
    /\ disk.hasList => disk.list = snapshots[Len(snapshots)].list

C9_Witness ==
  /\ variant = Detailed
  /\ Len(snapshots) >= 3
  /\ snapshots[1].n = 1 /\ snapshots[1].list # <<>>
  /\ snapshots[2].n = CheckpointEvery + 1
  /\ Len(snapshots[2].list) > Len(snapshots[1].list)
  /\ disk.list = snapshots[3].list

\* C10: after every completed write of the files, intermediate or final, the
\* statistics on disk agree with the record list on disk
C10_StatsAgreeWithList ==
  variant = Detailed /\ disk.hasList /\ status # "failed" /\ pc # "stats" =>
    /\ disk.hasStats
    /\ disk.stats.totalPackages = Len(disk.list)
    /\ disk.stats.totalVersions = SumVersions(disk.list)

(***************************************************************************)
(* Properties of the files                                                 *)
(***************************************************************************)
\* the last call of saveFiles that wrote anything made all of its writes
SaveCompleted == snapshots # <<>> /\ snapshots[Len(snapshots)].whole

\* the shards on disk that hold record r
ShardsHolding(r) == {k \in DOMAIN disk.shards : r \in Range(disk.shards[k])}

RECURSIVE SumSizes(_, _)
\* the sum of the lengths of the shards with keys in ks
SumSizes(shards, ks) ==
  IF ks = {} THEN 0
  ELSE LET k == CHOOSE x \in ks : TRUE
       IN Len(shards[k]) + SumSizes(shards, ks \ {k})

\* C11: after every completed write of the files the shards on disk
\* partition the record list on disk: every record of the list is in exactly
\* one shard, every shard holds records of one publisher only, and the sizes
\* of the shards add up to the length of the list
C11_ShardsPartitionList ==
  SaveCompleted =>
    /\ \A n \in 1..Len(disk.list) :
         Cardinality(ShardsHolding(disk.list[n])) = 1
    /\ \A k \in DOMAIN disk.shards :
         \A r, q \in Range(disk.shards[k]) :
           r.latest.publisher = q.latest.publisher
    /\ SumSizes(disk.shards, DOMAIN disk.shards) = Len(disk.list)

\* the same for the generators that name a shard by the publisher as it is
C11_RawShardsPartitionList == variant # Workflow => C11_ShardsPartitionList

(***************************************************************************)
(* Properties of the records                                               *)
(***************************************************************************)
\* the records built so far: accumulated, or still in the results of the
\* batch or of the publisher under way
Emitted == Range(packages) \cup Range(batchResults) \cup Range(results)

\* C12: every record has a version, and its latest.version is versions[0];
\* no record is built for a package whose version listing holds no directory
C12_RecordHasLatestVersion ==
  /\ \A r \in Emitted :
       r.versions # <<>> /\ r.latest.version = r.versions[1]
  /\ versionless \cap healthy = {}
  /\ ~dotted =>
       \A id \in versionless : \A r \in Emitted : r.id # JoinId(id[1], id[2])

C12_Witness ==
  /\ pc = "done"
  /\ versionless # {}
  /\ \E r \in Range(packages) : Len(r.versions) >= 2

\* C13: no two records of the accumulated set have the same id (sibling
\* directories of the remote tree always have distinct names)
C13_IdsAreUnique ==
  variant = Detailed =>
    \A i, j \in 1..Len(packages) : i # j => packages[i].id # packages[j].id

\* the same for a remote tree whose directory names hold no dot
C13_PlainIdsAreUnique ==
  ~dotted => \A i, j \in 1..Len(packages) : i # j => packages[i].id # packages[j].id

(***************************************************************************)
(* Properties of the version order                                         *)
(***************************************************************************)
\* the listing fetchPackageVersions was applied to, and its directories
Listed == args.listing
ListedDirs == {e.name : e \in {x \in Range(Listed) : x.type = "dir"}}

\* dotted-numeric order in which a missing component counts as 0 and, of
\* two names that are equal up to trailing zero components, the longer
\* ranks higher
RECURSIVE NumericCompare(_, _, _)
NumericCompare(a, b, i) ==
  IF i > Max(Len(a), Len(b)) THEN Len(a) - Len(b)
  ELSE IF ComponentOrZero(a, i) # ComponentOrZero(b, i)
       THEN ComponentOrZero(a, i) - ComponentOrZero(b, i)
       ELSE NumericCompare(a, b, i + 1)

Descending(names) ==
  \A i, j \in 1..Len(names) : i < j => NumericCompare(names[i], names[j], 1) > 0

WellFormed(name) == \A i \in 1..Len(name) : name[i] # NaN

\* C14: fetchPackageVersions returns the directories of the listing in
\* descending dotted-numeric order, a name with a trailing zero component
\* above its shorter form (1.2 < 1.2.0), so that the result depends on the
\* set of names only: every listing of {1.2.0, 1.10.0, 1.2} gives
\* [1.10.0, 1.2.0, 1.2]
C14_SortedByVersionOnly ==
  pc = "returned" /\ args.fn = "fetchPackageVersions"
  /\ (\A v \in ListedDirs : WellFormed(v)) =>
    /\ {e.name : e \in Range(returned)} = ListedDirs
    /\ Len(returned) = Cardinality(ListedDirs)
    /\ Descending(Names(returned))
    /\ \A l \in ListingsOf(VersionEntries) :
         Range(l) = Range(Listed) => ApiSort(FilterDirs(l)) = returned
    /\ ListedDirs = { <<1, 2, 0>>, <<1, 10, 0>>, <<1, 2>> } =>
         Names(returned) = << <<1, 10, 0>>, <<1, 2, 0>>, <<1, 2>> >>

\* the part of it that does not rest on the order of 1.2 and 1.2.0: the
\* directories of the listing, each once, none above one that is higher in
\* the comparison of lines 80-89
C14_SortedUpToTies ==
  pc = "returned" /\ args.fn = "fetchPackageVersions" =>
    /\ {e.name : e \in Range(returned)} = ListedDirs
    /\ Len(returned) = Cardinality(ListedDirs)
    /\ \A i, j \in 1..Len(returned) :
         i < j => ApiCompare(returned[i], returned[j]) <= 0

\* name a is not lower than name b in the comparison of dotted numbers
NotLower(a, b) == ApiCompare([name |-> a], [name |-> b]) <= 0

\* C15: the versions of every record are in descending dotted-numeric
\* order, so that latest.version is not lower than any version of the
\* record, whatever the order of the version listing
C15_VersionsDescend ==
  variant \in {Detailed, Workflow} =>
    \A r \in Emitted :
      /\ \A i, j \in 1..Len(r.versions) :
           i < j => NotLower(r.versions[i], r.versions[j])
      /\ \A i \in 1..Len(r.versions) : NotLower(r.latest.version, r.versions[i])

\* the same for the generator that sorts with the comparison of dotted
\* numbers
C15_ApiVersionsDescend ==
  variant = Api =>
    \A r \in Emitted :
      \A i, j \in 1..Len(r.versions) :
        i < j => NotLower(r.versions[i], r.versions[j])

\* C16: fetchPackageVersions keeps the directories whose names are no dotted
\* numbers and places each of them after every directory whose name is one,
\* so that such a name is never versions[0] when a well-formed one exists
C16_MalformedSortLast ==
  pc = "returned" /\ args.fn = "fetchPackageVersions" =>
    /\ {e.name : e \in Range(returned)} = ListedDirs
    /\ \A i, j \in 1..Len(returned) :
         i < j => ~(~WellFormed(returned[i].name) /\ WellFormed(returned[j].name))
    /\ (\E v \in ListedDirs : WellFormed(v)) => WellFormed(returned[1].name)

(***************************************************************************)
(* Properties of the packages that yield no record                         *)
(***************************************************************************)
\* the lists that reached packages.json, and the one there now
Written == {snapshots[k].list : k \in 1..Len(snapshots)} \cup {disk.list}

\* C17: a package whose version listing holds no directory yields no
\* record: the step that receives the listing leaves the results, the
\* accumulated set, the files and the error counter as they were, and no
\* record of the package is ever accumulated or written
C17_VersionlessYieldsNothing ==
  /\ [][versionless' # versionless =>
         /\ results' = results /\ batchResults' = batchResults
         /\ packages' = packages /\ disk' = disk /\ snapshots' = snapshots
         /\ stats' = stats]_vars
  /\ [](/\ versionless \cap healthy = {}
        /\ ~dotted =>
             \A id \in versionless :
               /\ ~HasRecord(packages, id)
               /\ \A list \in Written : ~HasRecord(list, id))

C17_Witness ==
  /\ variant = Api
  /\ pc = "done"
  /\ versionless # {}
  /\ disk.hasList /\ disk.list # <<>>
  /\ stats.processingErrors = 0

\* C18: every package whose processing fails (a failed fetch of its
\* versions or of its manifest, or a failed build of its record) adds one to
\* stats.processingErrors and no other package adds to it, so that at the
\* end of the run the counter is the number of failed packages
C18_ErrorsCountFailures ==
  variant = Api /\ pc = "done" => stats.processingErrors = Cardinality(failed)

\* what the counter does bound: it never exceeds the failed packages
C18_ErrorsAtMostFailures ==
  variant = Api => stats.processingErrors <= Cardinality(failed)

(***************************************************************************)
(* Properties of the fields of a record                                    *)
(***************************************************************************)
Built == pc = "returned" /\ args.fn = "processPackage"

\* the value a document supplies for the description
DescriptionOf(doc) == OrElse(doc.ShortDescription, doc.Description)

\* C19: when the locale document and the primary document both supply a
\* field (name, publisher, description, homepage, license, author) the
\* record has the value of the locale document; a locale description "A"
\* and a primary description "B" give latest.description = "A"
C19_LocaleBeforePrimary ==
  Built =>
    LET l == args.locale
        m == args.main
        r == returned.latest
    IN /\ l.PackageName # 0 /\ m.PackageName # 0 => r.name = l.PackageName
       /\ l.Publisher # 0 /\ m.Publisher # 0 => r.publisher = l.Publisher
       /\ DescriptionOf(l) # 0 /\ DescriptionOf(m) # 0 => r.description = DescriptionOf(l)
       /\ l.Description # 0 /\ l.ShortDescription = 0 /\ m.Description # 0 =>
            r.description = l.Description
       /\ l.Homepage # 0 /\ m.Homepage # 0 => r.homepage = l.Homepage
       /\ l.License # 0 /\ m.License # 0 => r.license = l.License
       /\ l.Author # 0 /\ m.Author # 0 => r.author = l.Author

C19_Witness ==
  /\ Built
  /\ args.locale.Description = 1 /\ args.locale.ShortDescription = 0
  /\ args.main.Description = 2
  /\ args.locale.Publisher = 1 /\ args.main.Publisher = 2
  /\ args.locale.Homepage = 1 /\ args.main.Homepage = 2
  /\ returned.latest.description = 1
  /\ returned.latest.publisher = 1
  /\ returned.latest.homepage = 1

\* C20: for description, publisher and homepage, when the locale document
\* does not supply the field and the primary document does, the record has
\* the value of the primary document; the fallback (the name of the node,
\* or the empty value) is used only when no document supplies the field
C20_PrimaryBeforeFallback ==
  Built =>
    LET l == args.locale
        m == args.main
        r == returned.latest
    IN /\ DescriptionOf(l) = 0 /\ DescriptionOf(m) # 0 => r.description = DescriptionOf(m)
       /\ l.Publisher = 0 /\ m.Publisher # 0 => r.publisher = m.Publisher
       /\ l.Homepage = 0 /\ m.Homepage # 0 => r.homepage = m.Homepage
       /\ r.description = 0 => DescriptionOf(l) = 0 /\ DescriptionOf(m) = 0
       /\ r.publisher = args.pub => l.Publisher = 0 /\ m.Publisher = 0
       /\ r.homepage = 0 => l.Homepage = 0 /\ m.Homepage = 0

\* the part of it that holds: publisher and homepage
C20_PublisherAndHomepageFallBack ==
  Built =>
    LET l == args.locale
        m == args.main
        r == returned.latest
    IN /\ l.Publisher = 0 /\ m.Publisher # 0 => r.publisher = m.Publisher
       /\ l.Homepage = 0 /\ m.Homepage # 0 => r.homepage = m.Homepage
       /\ r.publisher = args.pub => l.Publisher = 0 /\ m.Publisher = 0
       /\ r.homepage = 0 => l.Homepage = 0 /\ m.Homepage = 0

(***************************************************************************)
(* Properties of the tags                                                  *)
(***************************************************************************)
\* the pieces of a Tags string between its commas, trimmed, without those
\* that are empty then
TrimmedPieces(tags) ==
  IF tags.kind # "string" THEN <<>>
  ELSE SelectSeq(MapTrim(SplitComma(tags.text)), LAMBDA t : t # <<>>)

\* C21: the tags of a record are the pieces of the comma-separated Tags
\* string of the manifest, each trimmed, without the pieces that are empty
\* after trimming, in their order and with duplicates; without a Tags field
\* they are the empty sequence
C21_TagsTrimmedNonEmpty ==
  pc = "returned" /\ args.fn = "tags" => returned = TrimmedPieces(args.tags)

\* the same for the generator that filters the pieces
C21_ApiTagsTrimmedNonEmpty ==
  pc = "returned" /\ args.fn = "tags" /\ variant = Api =>
    returned = TrimmedPieces(args.tags)

\* what holds in every generator: the tags without the empty ones are
\* those pieces
C21_TagsUpToEmptyPieces ==
  pc = "returned" /\ args.fn = "tags" =>
    SelectSeq(returned, LAMBDA t : t # <<>>) = TrimmedPieces(args.tags)

(***************************************************************************)
(* Properties of the order of the records                                  *)
(***************************************************************************)
\* the records built so far, in the order they are or will be accumulated:
\* this.packages, then the results of processBatch while it runs, then the
\* results of processPublisher while it runs
InOrder ==
  IF pc \in {"versions", "files", "content", "gather", "pkgsleep"}
  THEN packages \o batchResults \o results
  ELSE IF pc \in {"publisher", "batchsleep"} THEN packages \o batchResults
  ELSE packages

\* the package directory a record was built for, in a tree whose ids are
\* unique
NodeOf(r) ==
  CHOOSE node \in Range(offered) : JoinId(node[1], node[2]) = r.id

\* a listing names its entries by their position, so that node a comes
\* before node b in the traversal of the tree in listing order when
Before(a, b) == a[1] < b[1] \/ (a[1] = b[1] /\ a[2] < b[2])

\* C22: the accumulated records, read as (publisher, package) pairs, are a
\* subsequence of the traversal of the remote tree in listing order: a
\* failed or skipped package has no record, and the records of the others
\* are in the order of the traversal
C22_RecordsInListingOrder ==
  ~dotted =>
    /\ \A n \in 1..Len(InOrder) :
         \E node \in Range(offered) : JoinId(node[1], node[2]) = InOrder[n].id
    /\ \A i, j \in 1..Len(InOrder) :
         i < j => Before(NodeOf(InOrder[i]), NodeOf(InOrder[j]))
    /\ \A id \in failed \cup versionless : ~HasRecord(InOrder, id)

C22_Witness ==
  /\ variant = Detailed /\ ~dotted
  /\ pc = "done"
  /\ Len(packages) = 1
  /\ \E id \in failed : Before(id, NodeOf(packages[1]))

(***************************************************************************)
(* Properties of the requests in flight                                    *)
(***************************************************************************)
\* the calls with a request in flight
InFlight == {s \in Slots : calls[s].st = "inflight"}

\* the calls a rejected Promise.all of an earlier package left running
OfEarlierPackage == {s \in Slots : calls[s].ctx = "orphan"}

\* the calls for the package processPackage is now awaited for
OfCurrentPackage ==
  {s \in Slots : calls[s].ctx \in {"versions", "files", "installer", "locale", "default"}}

\* C23: at every moment at most concurrentLimit requests are in flight, and
\* no two requests in flight belong to different packages, also after a
\* fetch of the current package has failed
C23_RequestsBounded ==
  variant = Workflow =>
    /\ Cardinality(InFlight) <= concurrentLimit
    /\ ~(InFlight \cap OfEarlierPackage # {} /\ InFlight \cap OfCurrentPackage # {})

\* the first half alone
C23_AtMostTwoInFlight ==
  variant = Workflow => Cardinality(InFlight) <= concurrentLimit

\* the second half alone
C23_OnePackageInFlight ==
  variant = Workflow =>
    ~(InFlight \cap OfEarlierPackage # {} /\ InFlight \cap OfCurrentPackage # {})

\* what bounds the requests in flight: the three manifests of one version
C23_AtMostThreeOfAPackage ==
  Cardinality(InFlight \ OfEarlierPackage) <= Len(ManifestKinds)

(***************************************************************************)
(* Properties of crawls over the same tree                                 *)
(***************************************************************************)
\* every request of the run so far was answered with a success, and no
\* write failed
Undisturbed == faults = MaxFaults

\* C24: a full crawl in which every request is answered successfully
\* accumulates the records the remote tree holds, in the order of the tree:
\* two such crawls over the same tree accumulate the same sequence of
\* records, with the same ids, version orders and latest fields
C24_RecordsAreAFunctionOfTheTree ==
  args.fn = "crawl" /\ pc = "done" /\ Undisturbed =>
    /\ packages = RecordsOf(args.tree)
    /\ disk.list = RecordsOf(args.tree)
    /\ status = "ok"

C24_Witness ==
  /\ args.fn = "crawl" /\ pc = "done" /\ Undisturbed
  /\ Len(packages) = 2
  /\ packages[1].latest.publisher # packages[2].latest.publisher
  /\ packages[1].latest.tags # packages[2].latest.tags
  /\ Len(args.tree.root) = MaxPublishers + 1

(***************************************************************************)
(* Properties of the waits between the attempts of a call                  *)
(***************************************************************************)
\* the request in flight is the one after an attempt that failed with an
\* error other than the quota status
AfterTransient(c) ==
  c.st = "inflight" /\ c.i > 0 /\ Len(c.log) = c.i /\ c.log[c.i] = "error"

\* the sleep of the catch block before the request in flight
CatchSleep(c) == IF variant = Detailed THEN c.gap - requestDelay ELSE c.gap

\* C25: in generate-api.js and part_000, the attempt after attempt k (from
\* 0) that failed with a transient error goes out no sooner than
\* BackoffBase * 2^k ms after the failure, and the catch block's sleep is
\* exactly that long, so that the waits double
C25_WaitsDouble ==
  variant \in {Detailed, Api} =>
    \A s \in Slots : AfterTransient(calls[s]) =>
      /\ calls[s].gap >= BackoffBase * Pow2(calls[s].i - 1)
      /\ CatchSleep(calls[s]) = BackoffBase * Pow2(calls[s].i - 1)

C25_Witness ==
  /\ variant = Api
  /\ AfterTransient(calls[0])
  /\ calls[0].log = << "error", "error" >>
  /\ calls[0].gap = 2 * BackoffBase

C25_DetailedWitness ==
  /\ variant = Detailed
  /\ AfterTransient(calls[0])
  /\ calls[0].log = << "quota", "error" >>
  /\ calls[0].gap = 2 * BackoffBase + requestDelay

(***************************************************************************)
(* Termination                                                             *)
(***************************************************************************)
Completed(c) == c.st \in {"idle", "done"}

\* C26: whatever the responses (successes, transient failures, quota
\* failures), a fetchWithRetry call issues at most Retries requests and then
\* completes, and the crawl reaches its end
C26_CallsAndCrawlEnd ==
  /\ [](\A s \in Slots : calls[s].reqs <= Retries)
  /\ <>(pc = "done" /\ \A s \in Slots : Completed(calls[s]))

C26_Witness ==
  /\ pc = "done" /\ status = "ok"
  /\ faults = 0
  /\ packages # <<>>
  /\ \A s \in Slots : Completed(calls[s])

(***************************************************************************)
(* Storage failures at a checkpoint                                        *)
(***************************************************************************)
\* the saveFiles call after a batch stops at a write that fails
CheckpointFails == pc = "checkpoint" /\ faults' < faults

\* C27: a storage failure during a checkpoint write does not end the crawl:
\* the loop goes on with the next batch, or with the final saveFiles when no
\* batch remains, and the records accumulated so far are kept
C27_CheckpointFailureGoesOn ==
  [][CheckpointFails =>
       /\ pc' = IF index + 1 < Len(batches) THEN "publisher" ELSE "finalsave"
       /\ status' = status
       /\ packages' = packages]_vars

\* the same of the workflow's generator, whose saveFiles catches
C27_WorkflowCheckpointFailureGoesOn ==
  [][variant = Workflow /\ CheckpointFails =>
       /\ pc' = IF index + 1 < Len(batches) THEN "publisher" ELSE "finalsave"
       /\ status' = status
       /\ packages' = packages]_vars

\* a crawl of generate-api.js ended by the checkpoint after its first batch,
\* with batches left
C27_CrawlEndedAtCheckpoint ==
  /\ variant = Detailed
  /\ pc = "done" /\ status = "failed"
  /\ Len(batchLog) = 1 /\ Len(batches) > 1

(***************************************************************************)
(* Properties of the classification of manifest files                      *)
(***************************************************************************)
Classified == pc = "returned" /\ args.fn = "classify"

\* the file selected for a category is the first of the listing that matches
\* it, and none is selected only when none matches
FirstMatch(kind) ==
  IF returned[kind] = 0
  THEN \A n \in 1..Len(args.names) : ~Matches(args.names[n], kind)
  ELSE /\ returned[kind] \in 1..Len(args.names)
       /\ Matches(args.names[returned[kind]], kind)
       /\ \A m \in 1..(returned[kind] - 1) : ~Matches(args.names[m], kind)

\* no file is selected for two categories
SelectedOnce ==
  \A k1, k2 \in Range(ManifestKinds) :
    k1 # k2 /\ returned[k1] # 0 => returned[k1] # returned[k2]

\* C28: the classification of a file listing selects for each category
\* (installer, locale, primary) the first file that matches it or none, no
\* file for two categories, and fails on no listing
C28_OneFileOfEachCategory ==
  Classified => (\A kind \in Range(ManifestKinds) : FirstMatch(kind)) /\ SelectedOnce

\* what holds of every listing: the first match of each category, whatever
\* the duplicates, and the primary manifest is no other category's
C28_FirstMatchOfEachCategory ==
  Classified =>
    /\ \A kind \in Range(ManifestKinds) : FirstMatch(kind)
    /\ returned["default"] # 0 =>
          returned["default"] \notin {returned["installer"], returned["locale"]}

\* a listing with two installer manifests and two locale manifests
C28_DuplicatesClassified ==
  /\ Classified
  /\ args.names = << << "id", "installer", "yaml" >>, << "id", "installer", "yaml" >>,
                     << "id", "locale", "en-US", "yaml" >> >>
  /\ returned = [installer |-> 1, locale |-> 3, default |-> 0]

====
